---- MODULE Spec2Model ----
(***************************************************************************)
(* Catalog cache of the streaming backend                                  *)
(* (src/server/services/content-service.ts).                               *)
(*                                                                         *)
(* The service is one Node.js process: code between two awaits runs        *)
(* atomically, and every await is a point where another request may run.   *)
(* Each action below is one such atomic stretch of one request.            *)
(* The wall-clock stamp createdAt of an asset is not carried.              *)
(***************************************************************************)
EXTENDS Integers, Sequences, FiniteSets, TLC

(* ---------------------------- bounds ---------------------------------- *)
MaxTicks == 1
MaxReads == 2
MaxIngest == 1
MaxUserCalls == 1

\* two requests may be in progress at the same time
Procs == {1, 2}

(* ------------------------- program constants --------------------------- *)
CACHE_TTL == 60 * 1000

\* JavaScript null / undefined of a string-valued field
Null == "<null>"

\* The clock advances in steps of one TTL and starts a full TTL after the
\* epoch (lastCacheRefresh starts at 0, Date.now() is far from 0).
TickStep == CACHE_TTL
StartTime == CACHE_TTL
MaxClock == StartTime + MaxTicks * TickStep

(* --------------------- storage keys and their naming ------------------- *)
K1V == "movies/1/drama/alpha.mp4"
K1T == "movies/1/drama/alpha.png"
K2V == "movies/2/comedy/beta.mp4"
K2T == "movies/2/comedy/beta.png"
KBAD == "movies/readme.txt"
KUP == "uploads/new.mp4"

\* the null result of extractMovieInfo
NoInfo == [id |-> Null, title |-> Null, genre |-> Null, fileType |-> Null]

\* extractMovieInfo of ./s3: the movie a key belongs to, or null
extractMovieInfo(key) ==
    CASE key = K1V -> [id |-> "1", title |-> "alpha", genre |-> "drama", fileType |-> "mp4"]
      [] key = K1T -> [id |-> "1", title |-> "alpha", genre |-> "drama", fileType |-> "png"]
      [] key = K2V -> [id |-> "2", title |-> "beta", genre |-> "comedy", fileType |-> "mp4"]
      [] key = K2T -> [id |-> "2", title |-> "beta", genre |-> "comedy", fileType |-> "png"]
      [] OTHER -> NoInfo

\* the listings the bulk-listing source may return (file.key of each entry)
Listings ==
    { <<K2V, K1V, K1T>>,
      <<KBAD, K2T>> }

\* a signed URL of getSignedVideoUrl
SignedUrl(key) == "signed:" \o key

\* the value NaN, which is equal to no number, itself included
NaN == -1

\* parseInt of a string: the number its leading digits spell, NaN when it
\* does not start with a digit
parseInt(id) ==
    CASE id = "1" -> 1
      [] id = "2" -> 2
      [] id = "3" -> 3
      [] id = "4" -> 4
      [] id = "7" -> 7
      [] id = "9" -> 9
      [] id = "1abc" -> 1
      [] OTHER -> NaN

\* a === b on numbers
StrictEq(a, b) == a # NaN /\ b # NaN /\ a = b

(* --------------------- structured-record store rows -------------------- *)
\* an absent attribute is the falsy value of its type ("" , 0, FALSE)
R2 == [id |-> "2", title |-> "beta (db)", description |-> "stored",
       thumbnailKey |-> "", videoKey |-> K2V, genre |-> "comedy",
       releaseYear |-> 1999, duration |-> 90, rating |-> "R", featured |-> TRUE]
R3 == [id |-> "3", title |-> "", description |-> "",
       thumbnailKey |-> "thumbs/3.png", videoKey |-> "", genre |-> "",
       releaseYear |-> 0, duration |-> 0, rating |-> "", featured |-> FALSE]

\* the tables the record store may hold when the service starts
InitTables == { <<>>, <<R2, R3>> }

(* ------------------------- refreshCache, pure parts -------------------- *)
\* (mutation) an empty cache inside the TTL window is served as it is
IsFreshByTime(now, last, cache) == now - last < CACHE_TTL

\* (mutation) the comparison with the TTL is turned around
IsFreshFlipped(now, last, cache) == now - last >= CACHE_TTL /\ Len(cache) > 0

\* line 40: the cache is served as it is
IsFresh(now, last, cache) == now - last < CACHE_TTL /\ Len(cache) > 0

RECURSIVE GroupFiles(_, _, _)
\* lines 52-73: group the listing by movie id, in first-seen order
GroupFiles(files, k, movieMap) ==
    IF k > Len(files) THEN movieMap
    ELSE LET movieInfo == extractMovieInfo(files[k])
         IN IF movieInfo = NoInfo THEN GroupFiles(files, k + 1, movieMap)
            ELSE LET file == [type |-> movieInfo.fileType, key |-> files[k]]
                     at == { n \in 1..Len(movieMap) : movieMap[n].id = movieInfo.id }
                 IN IF at = {}
                    THEN GroupFiles(files, k + 1,
                             Append(movieMap, [id |-> movieInfo.id,
                                               title |-> movieInfo.title,
                                               genre |-> movieInfo.genre,
                                               files |-> <<file>>]))
                    ELSE LET n == CHOOSE n \in at : TRUE
                         IN GroupFiles(files, k + 1,
                                [movieMap EXCEPT ![n].files = Append(@, file)])

Movies(s3Videos) == GroupFiles(s3Videos, 1, <<>>)

\* lines 78-79: files.find(f => f.type === t), Null when there is none
FindFile(movie, t) ==
    LET at == { n \in 1..Len(movie.files) : movie.files[n].type = t }
    IN IF at = {} THEN Null
       ELSE movie.files[CHOOSE n \in at : \A m \in at : n <= m].key

\* JavaScript a || b on strings and numbers
OrStr(a, b) == IF a = "" \/ a = Null THEN b ELSE a
OrNum(a, b) == IF a = 0 THEN b ELSE a

\* line 96: the featured flag of an asset built from the bulk listing
FeaturedFlag(movie) == movie.id = "1"

\* lines 85-99: the asset built from a bulk-listing group
S3ProcessedVideo(movie, videoUrl) ==
    [id |-> movie.id,
     title |-> OrStr(movie.title, "Untitled"),
     description |-> movie.genre \o " movie: " \o movie.title,
     thumbnailUrl |-> FindFile(movie, "png"),
     videoUrl |-> videoUrl,
     hlsUrl |-> OrStr(FindFile(movie, "mp4"), ""),
     duration |-> 120,
     releaseYear |-> 2023,
     genre |-> OrStr(movie.genre, "Unknown"),
     rating |-> "PG-13",
     featured |-> FeaturedFlag(movie),
     category |-> OrStr(movie.genre, "General")]

\* lines 108-119: the row mirrored into the structured-record store
MirrorItem(movie, processedVideo) ==
    [id |-> movie.id,
     title |-> processedVideo.title,
     description |-> processedVideo.description,
     thumbnailKey |-> OrStr(FindFile(movie, "png"), ""),
     videoKey |-> OrStr(FindFile(movie, "mp4"), ""),
     genre |-> processedVideo.genre,
     releaseYear |-> processedVideo.releaseYear,
     duration |-> processedVideo.duration,
     rating |-> processedVideo.rating,
     featured |-> FALSE]

\* lines 138-152: the asset built from a structured record
DynamoProcessedVideo(dynamoVideo, videoUrl) ==
    [id |-> dynamoVideo.id,
     title |-> OrStr(dynamoVideo.title, "Untitled"),
     description |-> OrStr(dynamoVideo.description, "No description"),
     thumbnailUrl |-> OrStr(dynamoVideo.thumbnailKey, Null),
     videoUrl |-> videoUrl,
     hlsUrl |-> OrStr(dynamoVideo.videoKey, ""),
     duration |-> dynamoVideo.duration,
     releaseYear |-> OrNum(dynamoVideo.releaseYear, 2023),
     genre |-> OrStr(dynamoVideo.genre, "Unknown"),
     rating |-> OrStr(dynamoVideo.rating, "PG-13"),
     featured |-> dynamoVideo.featured,
     category |-> OrStr(dynamoVideo.genre, "General")]

\* (mutation) no structured record is ever skipped
AlreadyProcessedNever(processedVideos, dynamoVideo) == FALSE

\* line 132: processedVideos.some(v => v.id === dynamoVideo.id)
AlreadyProcessed(processedVideos, dynamoVideo) ==
    \E n \in 1..Len(processedVideos) : processedVideos[n].id = dynamoVideo.id

\* (mutation) the asset is also patched into the live cache
PushProcessedLive(cache, processedVideos, processedVideo) ==
    [cache |-> Append(cache, processedVideo),
     processedVideos |-> Append(processedVideos, processedVideo)]

\* lines 101 and 154: processedVideos.push(processedVideo) adds to the list
\* of the pass and leaves the live cache alone
PushProcessed(cache, processedVideos, processedVideo) ==
    [cache |-> cache, processedVideos |-> Append(processedVideos, processedVideo)]

\* putItem of ./dynamodb on the StreamingVideos table, keyed by id; a scan
\* returns the rows in an order fixed by their keys, not by their arrival
putItem(table, item) ==
    LET at == { n \in 1..Len(table) : table[n].id = item.id }
        before == SelectSeq(table, LAMBDA r : parseInt(r.id) < parseInt(item.id))
        after == SelectSeq(table, LAMBDA r : parseInt(r.id) > parseInt(item.id))
    IN IF at = {} THEN before \o <<item>> \o after
       ELSE [table EXCEPT ![CHOOSE n \in at : TRUE] = item]

\* lines 76-81: the next movie from position i on that has a video file,
\* 0 when there is none
NextS3(movies, i) ==
    LET at == { k \in i..Len(movies) : FindFile(movies[k], "mp4") # Null }
    IN IF at = {} THEN 0 ELSE CHOOSE k \in at : \A m \in at : k <= m

RECURSIVE ContinueDynamo(_, _, _, _)
\* lines 129-156: run the merge loop from record j up to its next await
\* (pc "signDynamo") or to its end (pc "swap")
ContinueDynamo(cache, processedVideos, dynamoVideos, j) ==
    IF j > Len(dynamoVideos)
    THEN [pc |-> "swap", idx |-> 0, cache |-> cache, processedVideos |-> processedVideos]
    ELSE IF AlreadyProcessed(processedVideos, dynamoVideos[j])
    THEN ContinueDynamo(cache, processedVideos, dynamoVideos, j + 1)
    ELSE IF dynamoVideos[j].videoKey # ""
    THEN [pc |-> "signDynamo", idx |-> j, cache |-> cache, processedVideos |-> processedVideos]
    ELSE LET pushed == PushProcessed(cache, processedVideos,
                                     DynamoProcessedVideo(dynamoVideos[j], Null))
         IN ContinueDynamo(pushed.cache, pushed.processedVideos, dynamoVideos, j + 1)

\* lines 76-126: run the bulk-listing loop from movie i up to its next await
\* (pc "signS3"), then the merge loop
ContinueS3(cache, processedVideos, movies, dynamoVideos, i) ==
    LET k == NextS3(movies, i)
    IN IF k # 0
       THEN [pc |-> "signS3", idx |-> k, cache |-> cache, processedVideos |-> processedVideos]
       ELSE ContinueDynamo(cache, processedVideos, dynamoVideos, 1)

(* ------------------------------ readers -------------------------------- *)
\* lines 180-194: conversion of a cache entry to the Video type
ToVideo(v) ==
    [id |-> parseInt(v.id),
     title |-> v.title,
     description |-> v.description,
     thumbnailUrl |-> OrStr(v.thumbnailUrl, ""),
     videoUrl |-> OrStr(v.videoUrl, ""),
     hlsUrl |-> v.hlsUrl,
     duration |-> v.duration,
     releaseYear |-> v.releaseYear,
     genre |-> v.genre,
     rating |-> v.rating,
     featured |-> v.featured,
     category |-> v.category]

\* (mutation) the featured flag is not looked at
getFeaturedContentFirst(cache) ==
    IF Len(cache) > 0
    THEN [ok |-> TRUE, video |-> ToVideo(cache[1]), match |-> 95]
    ELSE [ok |-> FALSE, error |-> "No videos available"]

\* lines 169-200 after the refresh: the featured video or the first one
getFeaturedContent(cache) ==
    LET at == { n \in 1..Len(cache) : cache[n].featured }
    IN IF at # {}
       THEN [ok |-> TRUE, video |-> ToVideo(cache[CHOOSE n \in at : \A m \in at : n <= m]),
             match |-> 95]
       ELSE IF Len(cache) > 0
       THEN [ok |-> TRUE, video |-> ToVideo(cache[1]), match |-> 95]
       ELSE [ok |-> FALSE, error |-> "No videos available"]

\* the values of Math.random(), a number of [0, 1), in thousandths
Randoms == {0, 999}

\* (mutation) the factor is one too large
RandomMatchWide(random) == (random * 31) \div 1000 + 70

\* line 306 (and 230): Math.floor(Math.random() * 30) + 70
RandomMatch(random) == (random * 30) \div 1000 + 70

\* the match values Math.floor(Math.random() * 30) + 70 is drawn from here
MatchValues == { RandomMatch(random) : random \in Randoms }

\* (mutation) the videos are grouped by genre
GroupKeyGenre(video) == video.genre

\* line 210: the key the videos are grouped by
GroupKey(video) == video.category

RECURSIVE GroupVideos(_, _, _, _)
\* lines 209-235: videosCache.forEach from entry k on; categoriesMap is the
\* Map in insertion order, matches the random draw of each entry
GroupVideos(cache, matches, k, categoriesMap) ==
    IF k > Len(cache) THEN categoriesMap
    ELSE LET video == cache[k]
             category == GroupKey(video)
             item == ToVideo(video) @@ [match |-> matches[k]]
             at == { n \in 1..Len(categoriesMap) : categoriesMap[n].title = category }
         IN IF at = {}
            THEN GroupVideos(cache, matches, k + 1,
                     Append(categoriesMap, [title |-> category, videos |-> <<item>>]))
            ELSE LET n == CHOOSE n \in at : TRUE
                 IN GroupVideos(cache, matches, k + 1,
                        [categoriesMap EXCEPT ![n].videos = Append(@, item)])

\* lines 203-252 after the refresh: the categories with ids from 1 on
getContentCategories(cache, matches) ==
    LET categoriesMap == GroupVideos(cache, matches, 1, <<>>)
    IN [n \in 1..Len(categoriesMap) |->
            [id |-> n, title |-> categoriesMap[n].title,
             videos |-> categoriesMap[n].videos]]

\* lines 282-311 after the refresh: every video with a random match;
\* randoms is the draw of Math.random() for each entry
getRecommendedVideos(cache, randoms) ==
    [n \in 1..Len(cache) |-> ToVideo(cache[n]) @@ [match |-> RandomMatch(randoms[n])]]

\* the null result of getVideoById
NoVideo == [id |-> NaN]

\* lines 255-279 after the refresh
getVideoById(cache, videoId) ==
    LET at == { n \in 1..Len(cache) : StrictEq(parseInt(cache[n].id), videoId) }
    IN IF at = {} THEN NoVideo
       ELSE ToVideo(cache[CHOOSE n \in at : \A m \in at : n <= m])

\* routes, lines 118-132: GET /api/content/video/:id on the snapshot the
\* service reads
GetVideoRoute(cache, param) ==
    LET videoId == parseInt(param)
        video == getVideoById(cache, videoId)
    IN IF videoId = NaN
       THEN [status |-> 400, requested |-> param, message |-> "Invalid video ID"]
       ELSE IF video = NoVideo
       THEN [status |-> 404, requested |-> param, message |-> "Video not found"]
       ELSE [status |-> 200, requested |-> param, video |-> video]

NoResult == [ok |-> FALSE, error |-> "<none>"]

\* no call answers
NoResponse == [slot |-> 0, call |-> "none", refreshed |-> "none", value |-> NoResult]

(* ------------------------------ ingest --------------------------------- *)
\* the ids Math.random may produce at line 386, as strings
RandomIds == {"7"}

IngestKeys == {K1V, KUP}

\* lines 389-403: the asset appended by requestTranscodeJob
NewVideo(id, title, description, s3Key, videoUrl) ==
    [id |-> id,
     title |-> title,
     description |-> description,
     thumbnailUrl |-> Null,
     videoUrl |-> videoUrl,
     hlsUrl |-> s3Key,
     duration |-> 0,
     releaseYear |-> 2023,
     genre |-> OrStr(extractMovieInfo(s3Key).genre, "Unknown"),
     rating |-> "NR",
     featured |-> FALSE,
     category |-> OrStr(extractMovieInfo(s3Key).genre, "Uploads")]

\* lines 410-421: the row requestTranscodeJob mirrors
IngestItem(id, title, description, s3Key) ==
    [id |-> id,
     title |-> title,
     description |-> description,
     thumbnailKey |-> "",
     videoKey |-> s3Key,
     genre |-> OrStr(extractMovieInfo(s3Key).genre, "Unknown"),
     releaseYear |-> 2023,
     duration |-> 0,
     rating |-> "NR",
     featured |-> FALSE]

(* ---------------------- stream route, pure parts ----------------------- *)
\* A key is a sequence of pieces of text. "%" is the percent sign, "." the
\* dot, "20", "25" and "2F" are pairs of hex digits; every other piece is
\* text that holds no percent sign and no dot and does not start with two
\* hex digits.
HexPairs == {"20", "25", "2F"}

\* the character the escape sequence %XX stands for
Unescaped(pair) ==
    CASE pair = "20" -> " "
      [] pair = "25" -> "%"
      [] pair = "2F" -> "/"

\* the escape sequence encodeURIComponent writes for a piece
Escaped(piece) ==
    CASE piece = " " -> <<"%", "20">>
      [] piece = "%" -> <<"%", "25">>
      [] piece = "/" -> <<"%", "2F">>
      [] OTHER -> <<piece>>

RECURSIVE encodeURIComponent(_)
\* the encoding a client or a routing layer applies to a key
encodeURIComponent(s) ==
    IF s = <<>> THEN <<>> ELSE Escaped(Head(s)) \o encodeURIComponent(Tail(s))

RECURSIVE Encoded(_, _)
\* the key after n rounds of encoding
Encoded(s, n) == IF n = 0 THEN s ELSE Encoded(encodeURIComponent(s), n - 1)

\* decodeURIComponent throws a URIError on a percent sign that is not
\* followed by two hex digits
Malformed(s) ==
    \E i \in 1..Len(s) : s[i] = "%" /\ (i = Len(s) \/ s[i + 1] \notin HexPairs)

RECURSIVE decodeURIComponent(_)
\* decodeURIComponent of a well-formed text
decodeURIComponent(s) ==
    IF s = <<>> THEN <<>>
    ELSE IF Head(s) = "%"
    THEN <<Unescaped(s[2])>> \o decodeURIComponent(SubSeq(s, 3, Len(s)))
    ELSE <<Head(s)>> \o decodeURIComponent(Tail(s))

\* decodedKey.includes('%')
IncludesPercent(s) == \E i \in 1..Len(s) : s[i] = "%"

\* the outcome of a decode that threw
Thrown(passes) == [thrown |-> TRUE, finalKey |-> <<>>, passes |-> passes]

\* (mutation) the key is decoded once
FinalKeyOnce(key) ==
    IF Malformed(key) THEN Thrown(1)
    ELSE [thrown |-> FALSE, finalKey |-> decodeURIComponent(key), passes |-> 1]

\* lines 371-374: decodedKey and finalKey, with the number of decode passes
FinalKey(key) ==
    IF Malformed(key) THEN Thrown(1)
    ELSE LET decodedKey == decodeURIComponent(key)
         IN IF IncludesPercent(decodedKey)
            THEN IF Malformed(decodedKey) THEN Thrown(2)
                 ELSE [thrown |-> FALSE, finalKey |-> decodeURIComponent(decodedKey),
                       passes |-> 2]
            ELSE [thrown |-> FALSE, finalKey |-> decodedKey, passes |-> 1]

RECURSIVE Join(_)
\* the text the pieces spell
Join(s) == IF s = <<>> THEN "" ELSE Head(s) \o Join(Tail(s))

\* the position of the last dot of a key, 0 when it has none
LastDot(s) ==
    LET dots == { i \in 1..Len(s) : s[i] = "." }
    IN IF dots = {} THEN 0 ELSE CHOOSE i \in dots : \A j \in dots : j <= i

\* line 378, split('.').pop(): the text after the last dot, the whole key
\* when it has no dot
SplitPop(s) == Join(SubSeq(s, LastDot(s) + 1, Len(s)))

\* line 378, toLowerCase()
toLowerCase(text) ==
    CASE text = "MP4" -> "mp4"
      [] text = "PNG" -> "png"
      [] OTHER -> text

\* line 378
FileExtension(finalKey) == toLowerCase(SplitPop(finalKey))

\* lines 380-385
ContentType(fileExtension) ==
    CASE fileExtension = "png" -> "image/png"
      [] fileExtension \in {"jpg", "jpeg"} -> "image/jpeg"
      [] fileExtension = "mp4" -> "video/mp4"
      [] fileExtension = "m3u8" -> "application/vnd.apple.mpegurl"
      [] fileExtension = "ts" -> "video/mp2t"
      [] OTHER -> "application/octet-stream"

\* line 394: the extensions served through CloudFront
CloudFrontExtensions == {"m3u8", "ts", "mp4"}

\* line 432: the tier of the origin a request is served from
OriginTier(fileExtension, range) ==
    IF fileExtension \in {"mp4", "webm"} /\ range # Null THEN 2 ELSE 3

\* the keys asked for, as the text of the stored object
StreamKeys ==
    { <<"movies", "/", "k", ".", "mp4">>, <<"k", ".", "MP4">>, <<"k", ".", "webm">>,
      <<"k", ".", "png">>, <<"k", ".", "PNG">>, <<"k", ".", "jpg">>, <<"k", ".", "jpeg">>,
      <<"k", ".", "m3u8">>, <<"k", ".", "ts">>, <<"k", ".", "foo">>,
      <<"k", ".", "tar", ".", "png">>, <<"k">>, <<"mp4">>, <<"k", " ", "k", ".", "mp4">>,
      <<"k", "%", ".", "mp4">>, <<"k", "%", "20", ".", "mp4">> }

\* how often the key of a request was encoded
Encodings == {0, 1, 2}

\* the Range header of a request
Ranges == {Null, "bytes=0-99"}

\* a request: req.params.key, req.headers.range and whether CloudFront is
\* configured (line 392); original and encoded tell how the key was made
Requests ==
    { [key |-> Encoded(k, n), original |-> k, encoded |-> n, range |-> r, cloudFront |-> c] :
        k \in StreamKeys, n \in Encodings, r \in Ranges, c \in BOOLEAN }

NoRequest == [key |-> <<>>, original |-> <<>>, encoded |-> 0, range |-> Null,
              cloudFront |-> FALSE]

\* the ways getSignedVideoUrl of ./services/s3 ends: with a URL, with
\* nothing, or by throwing (SigningFailed)
SignedVideoUrlOutcomes == {"url", "null", "thrown"}

\* response.ok of node-fetch
Ok(status) == status \in 200..299

\* the responses an upstream gives to a fetch that carried the Range header
\* range (Null: none): the content, whole or in part, or an error
UpstreamResponses(range) ==
    { [status |-> IF range = Null THEN 200 ELSE 206,
       contentRange |-> IF range = Null THEN Null ELSE "bytes 0-99/1000",
       contentLength |-> l, contentType |-> t, body |-> "bytes"] :
        l \in {Null, "100"}, t \in {Null, "binary/octet-stream"} }
    \cup
    { [status |-> s, contentRange |-> Null, contentLength |-> Null,
       contentType |-> "application/xml", body |-> "AccessDenied"] : s \in {403, 404} }

NoUpstream == [status |-> 0, contentRange |-> Null, contentLength |-> Null,
               contentType |-> Null, body |-> Null]

\* the response of the route before anything is sent
NoRes == [sent |-> FALSE, status |-> 0, cors |-> FALSE, contentType |-> Null,
          contentLength |-> Null, contentRange |-> Null, acceptRanges |-> Null,
          cacheControl |-> Null, body |-> Null, details |-> Null]

\* res.status(status).json({message, ...})
Json(status, message, details) ==
    [NoRes EXCEPT !.sent = TRUE, !.status = status, !.contentType = "application/json",
                  !.body = message, !.details = details]

\* lines 403-419: the CloudFront response relayed
Relay1(up, contentType) ==
    [NoRes EXCEPT !.sent = TRUE, !.status = up.status, !.cors = TRUE,
                  !.contentType = OrStr(up.contentType, contentType), !.body = up.body]

\* lines 450-478: the S3 response to a ranged request relayed
Relay2(up, contentType) ==
    [NoRes EXCEPT !.sent = TRUE, !.status = up.status, !.cors = TRUE,
                  !.contentRange = OrStr(up.contentRange, Null),
                  !.contentLength = OrStr(up.contentLength, Null),
                  !.contentType = OrStr(up.contentType, contentType),
                  !.acceptRanges = "bytes", !.body = up.body]

\* (mutation) a response that is not OK is answered with 502 and no detail
Answer3BadGateway(up, contentType) ==
    IF ~Ok(up.status) THEN Json(502, "S3 returned status", Null)
    ELSE [NoRes EXCEPT !.sent = TRUE, !.status = up.status, !.cors = TRUE,
                       !.contentLength = OrStr(up.contentLength, Null),
                       !.contentType = OrStr(up.contentType, contentType),
                       !.cacheControl = "public, max-age=31536000", !.body = up.body]

\* lines 503-537: the S3 response to a standard request, surfaced or relayed
Answer3(up, contentType) ==
    IF ~Ok(up.status) THEN Json(up.status, "S3 returned status", up.body)
    ELSE [NoRes EXCEPT !.sent = TRUE, !.status = up.status, !.cors = TRUE,
                       !.contentLength = OrStr(up.contentLength, Null),
                       !.contentType = OrStr(up.contentType, contentType),
                       !.cacheControl = "public, max-age=31536000", !.body = up.body]

\* the handler before a request
NoStream == [pc |-> "none", finalKey |-> <<>>, passes |-> 0, fileExtension |-> Null,
             contentType |-> Null, tier |-> 0, sentRange |-> Null, signed |-> "none",
             fetched |-> {}, got |-> NoUpstream, edge |-> "none"]

(* ------------------------------- state --------------------------------- *)
VARIABLES
    videosCache,        \* line 17: the live catalog snapshot
    lastCacheRefresh,   \* line 18
    dynamoTable,        \* the StreamingVideos table of the record store
    devMode,            \* process.env.NODE_ENV === 'development'
    clock,              \* Date.now()
    readCalls,          \* number of reader calls made
    ingestCalls,        \* number of requestTranscodeJob calls made
    pc,                 \* per request: the await it is suspended at
    now,                \* per request: line 39
    s3Videos,           \* per request: line 46
    dynamoVideos,       \* per request: line 47
    processedVideos,    \* per request: line 49
    idx,                \* per request: position of the running loop
    refreshed,          \* per request: how its refreshCache call ended
    job,                \* per request: the arguments of requestTranscodeJob
    response,           \* the answer this step delivers, NoResponse if none
    watchlist,          \* the Watchlist table of the record store
    watchHistory,       \* the WatchHistory table of the record store
    userCalls,          \* number of watchlist and watch-history calls made
    request,            \* the stream request being served
    stream,             \* the stream handler: its position and its locals
    res,                \* the response of the stream route
    upstream,           \* the connection of the upstream fetch
    client,             \* the connection of the client
    component,          \* the VideoPlayer component: props, state, effects
    playerRef           \* playerRef.current, the video.js player

vars == <<videosCache, lastCacheRefresh, dynamoTable, devMode, clock, readCalls, ingestCalls,
          pc, now, s3Videos, dynamoVideos, processedVideos, idx, refreshed, job, response,
          watchlist, watchHistory, userCalls, request, stream, res, upstream, client,
          component, playerRef>>

shared == <<videosCache, lastCacheRefresh, dynamoTable>>
userState == <<watchlist, watchHistory, userCalls>>
streamState == <<request, stream, res, upstream, client>>
playerState == <<component, playerRef>>

\* no stream request is being served
StreamIdle ==
    /\ request = NoRequest
    /\ stream = NoStream
    /\ res = NoRes
    /\ upstream = "idle"
    /\ client = "none"
locals == <<now, s3Videos, dynamoVideos, processedVideos, idx>>

(* --------------------- VideoPlayer component, state --------------------- *)
\* the sources the component is mounted with
PrimarySrc == "primary.m3u8"
FallbackSrc == "fallback.mp4"

\* the fallbackSrc prop: absent, the same as src, another source
FallbackProps == {Null, PrimarySrc, FallbackSrc}

\* lines 143-145: the three useState values of a render
StateOf(c) ==
    [isError |-> c.isError, currentSrc |-> c.currentSrc,
     attemptedFallback |-> c.attemptedFallback]

\* the component before it is mounted: props, useState values, the values
\* the effects last ran with (deps), the values the ready callback of line
\* 209 closed over (closure), the timers of line 245 and the play promises
\* of line 247 that are pending, the calls of onError and of src(fallbackSrc)
\* made, and the src of the direct element of lines 312-323
NoComponent ==
    [phase |-> "none", src |-> Null, fallbackSrc |-> Null, autoplay |-> FALSE,
     isError |-> FALSE, currentSrc |-> Null, attemptedFallback |-> FALSE,
     deps |-> [isError |-> FALSE, currentSrc |-> Null, attemptedFallback |-> FALSE],
     closure |-> [currentSrc |-> Null], listening |-> FALSE,
     timers |-> 0, plays |-> 0, onErrorCalls |-> 0, fallbackLoads |-> 0,
     direct |-> Null]

\* playerRef.current is null
NoPlayer == [exists |-> FALSE, src |-> Null, status |-> "none", paused |-> TRUE,
             attached |-> FALSE]

\* no VideoPlayer is mounted
PlayerIdle ==
    /\ component = NoComponent
    /\ playerRef = NoPlayer

NoJob == [id |-> Null, title |-> Null, description |-> Null, s3Key |-> Null,
          userId |-> 0, videoId |-> 0]

PassStates == {"listVideos", "getDynamoVideos", "signS3", "putS3", "signDynamo"}
InPass(p) == pc[p] \in PassStates

\* the request slot p is free: no call is running in it; a new request
\* takes the lowest free slot
Free(p) == pc[p] = "idle"
Takes(p) == Free(p) /\ \A q \in Procs : q < p => ~Free(q)

Init ==
    /\ videosCache = <<>>
    /\ lastCacheRefresh = 0
    /\ dynamoTable \in InitTables
    /\ devMode \in BOOLEAN
    /\ clock = StartTime
    /\ readCalls = 0
    /\ ingestCalls = 0
    /\ pc = [p \in Procs |-> "idle"]
    /\ now = [p \in Procs |-> 0]
    /\ s3Videos = [p \in Procs |-> <<>>]
    /\ dynamoVideos = [p \in Procs |-> <<>>]
    /\ processedVideos = [p \in Procs |-> <<>>]
    /\ idx = [p \in Procs |-> 0]
    /\ refreshed = [p \in Procs |-> "none"]
    /\ job = [p \in Procs |-> NoJob]
    /\ response = NoResponse
    /\ watchlist = <<>>
    /\ watchHistory = <<>>
    /\ userCalls = 0
    /\ StreamIdle
    /\ PlayerIdle

\* time passes (the clock is only read by a reader call, line 39)
Tick ==
    /\ clock + TickStep <= MaxClock
    /\ readCalls < MaxReads
    /\ clock' = clock + TickStep
    /\ UNCHANGED <<videosCache, lastCacheRefresh, dynamoTable, devMode, userState, streamState, playerState, readCalls, ingestCalls,
                   pc, now, s3Videos, dynamoVideos, processedVideos, idx, refreshed,
                   job>>
    /\ response' = NoResponse

(* --------------------------- refreshCache ------------------------------ *)
\* (mutation) the pass adds its assets to the snapshot it finds
SwapCachePatches(cache, last, processed, passNow) ==
    [cache |-> cache \o processed, last |-> passNow]

\* lines 158-160: the new snapshot and its time stamp
SwapCache(cache, last, processed, passNow) ==
    [cache |-> processed, last |-> passNow]

\* (mutation) the catch drops the snapshot
CatchRefreshClears(cache, last) ==
    [cache |-> <<>>, last |-> last]

\* lines 163-165: the catch of refreshCache logs and returns
CatchRefresh(cache, last) ==
    [cache |-> cache, last |-> last]

\* the request leaves refreshCache and goes on to read the cache; the
\* locals of the call are dead from here on
EndPass(p, how) ==
    /\ pc' = [pc EXCEPT ![p] = "read"]
    /\ refreshed' = [refreshed EXCEPT ![p] = how]
    /\ now' = [now EXCEPT ![p] = 0]
    /\ s3Videos' = [s3Videos EXCEPT ![p] = <<>>]
    /\ dynamoVideos' = [dynamoVideos EXCEPT ![p] = <<>>]
    /\ processedVideos' = [processedVideos EXCEPT ![p] = <<>>]
    /\ idx' = [idx EXCEPT ![p] = 0]

\* the pass runs on to the await or to the swap that st describes
Proceed(p, st, dv) ==
    IF st.pc = "swap"
    THEN LET sw == SwapCache(st.cache, lastCacheRefresh, st.processedVideos, now[p])
         IN /\ videosCache' = sw.cache
            /\ lastCacheRefresh' = sw.last
            /\ EndPass(p, "swapped")
    ELSE /\ videosCache' = st.cache
         /\ lastCacheRefresh' = lastCacheRefresh
         /\ pc' = [pc EXCEPT ![p] = st.pc]
         /\ idx' = [idx EXCEPT ![p] = st.idx]
         /\ processedVideos' = [processedVideos EXCEPT ![p] = st.processedVideos]
         /\ dynamoVideos' = [dynamoVideos EXCEPT ![p] = dv]
         /\ UNCHANGED <<refreshed, s3Videos, now>>

\* a throw inside the try block of refreshCache
Abort(p) ==
    LET c == CatchRefresh(videosCache, lastCacheRefresh)
    IN /\ videosCache' = c.cache
       /\ lastCacheRefresh' = c.last
       /\ EndPass(p, IF pc[p] \in {"listVideos", "getDynamoVideos"}
                      THEN "fetchFailed" ELSE "signFailed")

\* lines 169-170 and 38-46: a reader is called; refreshCache returns at once
\* on a fresh cache and otherwise issues the bulk listing
CallReader(p) ==
    /\ Takes(p)
    /\ readCalls < MaxReads
    /\ readCalls' = readCalls + 1
    /\ IF IsFresh(clock, lastCacheRefresh, videosCache)
       THEN /\ pc' = [pc EXCEPT ![p] = "read"]
            /\ refreshed' = [refreshed EXCEPT ![p] = "fresh"]
            /\ now' = [now EXCEPT ![p] = 0]
       ELSE /\ pc' = [pc EXCEPT ![p] = "listVideos"]
            /\ refreshed' = [refreshed EXCEPT ![p] = "none"]
            /\ now' = [now EXCEPT ![p] = clock]
    /\ UNCHANGED <<videosCache, lastCacheRefresh, dynamoTable, devMode, userState, streamState, playerState, clock,
                   ingestCalls, s3Videos, dynamoVideos, processedVideos, idx, job>>
    /\ response' = NoResponse

\* line 46 resolves: the listing arrives and line 47 issues the record read
ListVideosOk(p) ==
    /\ pc[p] = "listVideos"
    /\ \E l \in Listings : s3Videos' = [s3Videos EXCEPT ![p] = l]
    /\ pc' = [pc EXCEPT ![p] = "getDynamoVideos"]
    /\ UNCHANGED <<videosCache, lastCacheRefresh, dynamoTable, devMode, userState, streamState, playerState, clock,
                   readCalls, ingestCalls, now, dynamoVideos, processedVideos, idx, refreshed,
                   job>>
    /\ response' = NoResponse

\* line 46 rejects
ListVideosFail(p) ==
    /\ pc[p] = "listVideos"
    /\ Abort(p)
    /\ UNCHANGED <<dynamoTable, devMode, userState, streamState, playerState, clock, readCalls, ingestCalls, job>>
    /\ response' = NoResponse

\* line 47 resolves: lines 49-82 run up to the first await of the loops
GetDynamoVideosOk(p) ==
    /\ pc[p] = "getDynamoVideos"
    /\ Proceed(p, ContinueS3(videosCache, <<>>, Movies(s3Videos[p]), dynamoTable, 1),
               dynamoTable)
    /\ UNCHANGED <<dynamoTable, devMode, userState, streamState, playerState, clock, readCalls, ingestCalls, job>>
    /\ response' = NoResponse

\* line 47 rejects
GetDynamoVideosFail(p) ==
    /\ pc[p] = "getDynamoVideos"
    /\ Abort(p)
    /\ UNCHANGED <<dynamoTable, devMode, userState, streamState, playerState, clock, readCalls, ingestCalls, job>>
    /\ response' = NoResponse

\* the outcomes of a getSignedVideoUrl call that resolves
SignResults(key) == {SignedUrl(key)}

\* line 82 resolves: lines 85-101 build and push the asset, then either the
\* mirror write is issued (line 108) or the loops run on
SignS3Ok(p) ==
    /\ pc[p] = "signS3"
    /\ LET movies == Movies(s3Videos[p])
           movie == movies[idx[p]]
       IN \E videoUrl \in SignResults(FindFile(movie, "mp4")) :
            LET pushed == PushProcessed(videosCache, processedVideos[p],
                                        S3ProcessedVideo(movie, videoUrl))
            IN IF devMode
               THEN Proceed(p, ContinueS3(pushed.cache, pushed.processedVideos, movies,
                                          dynamoVideos[p], idx[p] + 1), dynamoVideos[p])
               ELSE Proceed(p, [pc |-> "putS3", idx |-> idx[p], cache |-> pushed.cache,
                                processedVideos |-> pushed.processedVideos],
                            dynamoVideos[p])
    /\ UNCHANGED <<dynamoTable, devMode, userState, streamState, playerState, clock, readCalls, ingestCalls, job>>
    /\ response' = NoResponse

\* line 82 rejects: the throw reaches the catch of line 163
SignS3Fail(p) ==
    /\ pc[p] = "signS3"
    /\ Abort(p)
    /\ UNCHANGED <<dynamoTable, devMode, userState, streamState, playerState, clock, readCalls, ingestCalls, job>>
    /\ response' = NoResponse

\* (mutation) a rejected mirror write is thrown on to the catch of line 163
MirrorWriteThrows(table, item, ok) ==
    [table |-> IF ok THEN putItem(table, item) ELSE table, thrown |-> ~ok]

\* lines 104-124: the mirror write in its own try block; the catch of lines
\* 121-124 only warns, so nothing is thrown on whether the write took or not
MirrorWrite(table, item, ok) ==
    [table |-> IF ok THEN putItem(table, item) ELSE table, thrown |-> FALSE]

\* line 108 resolves or rejects; the loops run on
PutS3(p) ==
    /\ pc[p] = "putS3"
    /\ LET movies == Movies(s3Videos[p])
           movie == movies[idx[p]]
           last == processedVideos[p][Len(processedVideos[p])]
       IN \E ok \in BOOLEAN :
            LET m == MirrorWrite(dynamoTable, MirrorItem(movie, last), ok)
            IN /\ dynamoTable' = m.table
               /\ IF m.thrown
                  THEN Abort(p)
                  ELSE Proceed(p, ContinueS3(videosCache, processedVideos[p], movies,
                                             dynamoVideos[p], idx[p] + 1),
                               dynamoVideos[p])
    /\ UNCHANGED <<devMode, userState, streamState, playerState, clock, readCalls, ingestCalls, job>>
    /\ response' = NoResponse

\* line 136 resolves: lines 138-154 build and push the asset, the loop runs on
SignDynamoOk(p) ==
    /\ pc[p] = "signDynamo"
    /\ LET dynamoVideo == dynamoVideos[p][idx[p]]
       IN \E videoUrl \in SignResults(dynamoVideo.videoKey) :
            LET pushed == PushProcessed(videosCache, processedVideos[p],
                                        DynamoProcessedVideo(dynamoVideo, videoUrl))
            IN Proceed(p, ContinueDynamo(pushed.cache, pushed.processedVideos,
                                         dynamoVideos[p], idx[p] + 1), dynamoVideos[p])
    /\ UNCHANGED <<dynamoTable, devMode, userState, streamState, playerState, clock, readCalls, ingestCalls, job>>
    /\ response' = NoResponse

\* line 136 rejects
SignDynamoFail(p) ==
    /\ pc[p] = "signDynamo"
    /\ Abort(p)
    /\ UNCHANGED <<dynamoTable, devMode, userState, streamState, playerState, clock, readCalls, ingestCalls, job>>
    /\ response' = NoResponse

\* the answer of a call, with the way its refreshCache ended
Answer(p, call, value) ==
    [slot |-> p, call |-> call, refreshed |-> refreshed[p], value |-> value]

\* the call in slot p answers and the slot is free again
Respond(p, call, value) ==
    /\ response' = Answer(p, call, value)
    /\ pc' = [pc EXCEPT ![p] = "idle"]
    /\ refreshed' = [refreshed EXCEPT ![p] = "none"]
    /\ job' = [job EXCEPT ![p] = NoJob]

\* lines 173-199: the reader reads the live cache and answers
Read(p) ==
    /\ pc[p] = "read"
    /\ Respond(p, "getFeaturedContent", getFeaturedContent(videosCache))
    /\ UNCHANGED <<videosCache, lastCacheRefresh, dynamoTable, devMode, userState, streamState, playerState, clock,
                   readCalls, ingestCalls, now, s3Videos, dynamoVideos,
                   processedVideos, idx>>

(* ------------------------- requestTranscodeJob ------------------------- *)
\* lines 379-394: the call derives the id and issues the signing
CallIngest(p) ==
    /\ Takes(p)
    /\ ingestCalls < MaxIngest
    /\ ingestCalls' = ingestCalls + 1
    /\ readCalls' = readCalls
    /\ \E s3Key \in IngestKeys, r \in RandomIds :
         job' = [job EXCEPT ![p] = [NoJob EXCEPT !.id = OrStr(extractMovieInfo(s3Key).id, r),
                                                 !.title = "T", !.description = "D",
                                                 !.s3Key = s3Key]]
    /\ pc' = [pc EXCEPT ![p] = "ingestSign"]
    /\ UNCHANGED <<videosCache, lastCacheRefresh, dynamoTable, devMode, userState, streamState, playerState, clock,
                   now, s3Videos, dynamoVideos, processedVideos, idx, refreshed>>
    /\ response' = NoResponse

\* line 406: videosCache.push(newVideo)
PushCache(cache, newVideo) == Append(cache, newVideo)

\* lines 424-428
IngestSuccess(id) == [ok |-> TRUE, success |-> TRUE, dev |-> FALSE, videoId |-> id]

\* lines 429-439: the catch of requestTranscodeJob
IngestCatch(dev) ==
    IF dev THEN [ok |-> TRUE, success |-> TRUE, dev |-> TRUE, videoId |-> Null]
    ELSE [ok |-> FALSE, error |-> "thrown"]

\* line 394 resolves: lines 389-409 append the asset, then the mirror write
\* is issued or the call returns
IngestSignOk(p) ==
    /\ pc[p] = "ingestSign"
    /\ \E videoUrl \in SignResults(job[p].s3Key) :
         videosCache' = PushCache(videosCache,
                            NewVideo(job[p].id, job[p].title, job[p].description,
                                     job[p].s3Key, videoUrl))
    /\ IF devMode
       THEN Respond(p, "requestTranscodeJob", IngestSuccess(job[p].id))
       ELSE /\ pc' = [pc EXCEPT ![p] = "ingestPut"]
            /\ UNCHANGED <<refreshed, job>>
            /\ response' = NoResponse
    /\ UNCHANGED <<lastCacheRefresh, dynamoTable, devMode, userState, streamState, playerState, clock, readCalls,
                   ingestCalls, now, s3Videos, dynamoVideos, processedVideos, idx>>

\* line 394 rejects
IngestSignFail(p) ==
    /\ pc[p] = "ingestSign"
    /\ Respond(p, "requestTranscodeJob", IngestCatch(devMode))
    /\ UNCHANGED <<videosCache, lastCacheRefresh, dynamoTable, devMode, userState, streamState, playerState, clock,
                   readCalls, ingestCalls, now, s3Videos, dynamoVideos,
                   processedVideos, idx>>

\* line 410 resolves
IngestPutOk(p) ==
    /\ pc[p] = "ingestPut"
    /\ dynamoTable' = putItem(dynamoTable,
                              IngestItem(job[p].id, job[p].title, job[p].description,
                                         job[p].s3Key))
    /\ Respond(p, "requestTranscodeJob", IngestSuccess(job[p].id))
    /\ UNCHANGED <<videosCache, lastCacheRefresh, devMode, userState, streamState, playerState, clock, readCalls,
                   ingestCalls, now, s3Videos, dynamoVideos, processedVideos, idx>>

\* line 410 rejects
IngestPutFail(p) ==
    /\ pc[p] = "ingestPut"
    /\ Respond(p, "requestTranscodeJob", IngestCatch(devMode))
    /\ UNCHANGED <<videosCache, lastCacheRefresh, dynamoTable, devMode, userState, streamState, playerState, clock,
                   readCalls, ingestCalls, now, s3Videos, dynamoVideos,
                   processedVideos, idx>>

(* -------------------- watchlist and watch history ---------------------- *)
\* the user and video ids the calls are made with
UserIds == {1}
VideoIds == {1}

\* Number.prototype.toString
toString(n) ==
    CASE n = 1 -> "1"
      [] n = 2 -> "2"
      [] OTHER -> "0"

\* lines 318-321: the row addToWatchlist writes
WatchlistItem(userId, videoId) ==
    [userId |-> toString(userId), videoId |-> toString(videoId)]

\* lines 358-362: the row updateWatchHistory writes
HistoryItem(userId, videoId) ==
    [userId |-> toString(userId), videoId |-> toString(videoId), progress |-> 0]

\* putItem of ./dynamodb on a table keyed by the whole row
putRow(table, row) ==
    IF \E n \in 1..Len(table) : table[n] = row THEN table ELSE Append(table, row)

\* (mutation) the row is written in every mode
StoresRowAlways(dev) == TRUE

\* lines 317 and 357: process.env.NODE_ENV !== 'development'
StoresRow(dev) == ~dev

\* lines 325, 342 and 365
UserSuccess == [ok |-> TRUE, success |-> TRUE, dev |-> FALSE, videoId |-> Null]

\* (mutation) the catch returns success in every mode
UserCatchSwallows(dev) ==
    [ok |-> TRUE, success |-> TRUE, dev |-> TRUE, videoId |-> Null]

\* lines 326-333, 343-350 and 366-374: the catch of the three functions
UserCatch(dev) ==
    IF dev THEN [ok |-> TRUE, success |-> TRUE, dev |-> TRUE, videoId |-> Null]
    ELSE [ok |-> FALSE, error |-> "thrown"]

\* a call of addToWatchlist or updateWatchHistory: it returns at once or
\* issues its write (lines 317-318 and 357-358)
CallUser(p, call, await) ==
    /\ Takes(p)
    /\ userCalls < MaxUserCalls
    /\ userCalls' = userCalls + 1
    /\ \E u \in UserIds, v \in VideoIds :
         IF StoresRow(devMode)
         THEN /\ pc' = [pc EXCEPT ![p] = await]
              /\ job' = [job EXCEPT ![p] = [NoJob EXCEPT !.userId = u, !.videoId = v]]
              /\ refreshed' = refreshed
              /\ response' = NoResponse
         ELSE Respond(p, call, UserSuccess)
    /\ UNCHANGED <<videosCache, lastCacheRefresh, dynamoTable, devMode, clock, readCalls,
                   ingestCalls, now, s3Videos, dynamoVideos, processedVideos, idx,
                   watchlist, watchHistory, streamState, playerState>>

\* lines 314-325
CallAddToWatchlist(p) == CallUser(p, "addToWatchlist", "watchlistPut")

\* line 318 resolves
WatchlistPutOk(p) ==
    /\ pc[p] = "watchlistPut"
    /\ watchlist' = putRow(watchlist, WatchlistItem(job[p].userId, job[p].videoId))
    /\ Respond(p, "addToWatchlist", UserSuccess)
    /\ UNCHANGED <<videosCache, lastCacheRefresh, dynamoTable, devMode, clock, readCalls,
                   ingestCalls, now, s3Videos, dynamoVideos, processedVideos, idx,
                   watchHistory, userCalls, streamState, playerState>>

\* line 318 rejects
WatchlistPutFail(p) ==
    /\ pc[p] = "watchlistPut"
    /\ Respond(p, "addToWatchlist", UserCatch(devMode))
    /\ UNCHANGED <<videosCache, lastCacheRefresh, dynamoTable, devMode, clock, readCalls,
                   ingestCalls, now, s3Videos, dynamoVideos, processedVideos, idx,
                   userState, streamState, playerState>>

\* lines 338-342: removeFromWatchlist returns success and writes nothing
RemoveFromWatchlist(p) ==
    /\ Takes(p)
    /\ userCalls < MaxUserCalls
    /\ userCalls' = userCalls + 1
    /\ Respond(p, "removeFromWatchlist", UserSuccess)
    /\ UNCHANGED <<videosCache, lastCacheRefresh, dynamoTable, devMode, clock, readCalls,
                   ingestCalls, now, s3Videos, dynamoVideos, processedVideos, idx,
                   watchlist, watchHistory, streamState, playerState>>

\* lines 354-365
CallUpdateWatchHistory(p) == CallUser(p, "updateWatchHistory", "historyPut")

\* line 358 resolves
HistoryPutOk(p) ==
    /\ pc[p] = "historyPut"
    /\ watchHistory' = putRow(watchHistory, HistoryItem(job[p].userId, job[p].videoId))
    /\ Respond(p, "updateWatchHistory", UserSuccess)
    /\ UNCHANGED <<videosCache, lastCacheRefresh, dynamoTable, devMode, clock, readCalls,
                   ingestCalls, now, s3Videos, dynamoVideos, processedVideos, idx,
                   watchlist, userCalls, streamState, playerState>>

\* line 358 rejects
HistoryPutFail(p) ==
    /\ pc[p] = "historyPut"
    /\ Respond(p, "updateWatchHistory", UserCatch(devMode))
    /\ UNCHANGED <<videosCache, lastCacheRefresh, dynamoTable, devMode, clock, readCalls,
                   ingestCalls, now, s3Videos, dynamoVideos, processedVideos, idx,
                   userState, streamState, playerState>>

Next ==
    \/ Tick
    \/ \E p \in Procs :
        \/ CallReader(p)
        \/ ListVideosOk(p)
        \/ ListVideosFail(p)
        \/ GetDynamoVideosOk(p)
        \/ GetDynamoVideosFail(p)
        \/ SignS3Ok(p)
        \/ SignS3Fail(p)
        \/ PutS3(p)
        \/ SignDynamoOk(p)
        \/ SignDynamoFail(p)
        \/ Read(p)
        \/ CallIngest(p)
        \/ IngestSignOk(p)
        \/ IngestSignFail(p)
        \/ IngestPutOk(p)
        \/ IngestPutFail(p)

Spec == Init /\ [][Next]_vars

\* the catalog service with its watchlist and watch-history calls
NextAll ==
    \/ Next
    \/ \E p \in Procs :
        \/ CallAddToWatchlist(p)
        \/ WatchlistPutOk(p)
        \/ WatchlistPutFail(p)
        \/ RemoveFromWatchlist(p)
        \/ CallUpdateWatchHistory(p)
        \/ HistoryPutOk(p)
        \/ HistoryPutFail(p)

SpecAll == Init /\ [][NextAll]_vars

(* ----------------- the readers on a given snapshot -------------------- *)
MaxAppends == 2

RECURSIVE RunPass(_, _, _)
\* lines 76-160 with every signing resolved: the list a pass swaps in, from
\* the await or the end that st describes
RunPass(st, movies, dv) ==
    IF st.pc = "swap" THEN st.processedVideos
    ELSE IF st.pc = "signS3"
    THEN LET movie == movies[st.idx]
             pushed == PushProcessed(st.cache, st.processedVideos,
                          S3ProcessedVideo(movie, SignedUrl(FindFile(movie, "mp4"))))
         IN RunPass(ContinueS3(pushed.cache, pushed.processedVideos, movies, dv,
                               st.idx + 1), movies, dv)
    ELSE LET pushed == PushProcessed(st.cache, st.processedVideos,
                          DynamoProcessedVideo(dv[st.idx], SignedUrl(dv[st.idx].videoKey)))
         IN RunPass(ContinueDynamo(pushed.cache, pushed.processedVideos, dv, st.idx + 1),
                    movies, dv)

\* the snapshot of a pass over listing l and records dv
PassSnapshot(l, dv) == RunPass(ContinueS3(<<>>, <<>>, Movies(l), dv, 1), Movies(l), dv)

\* the assets requestTranscodeJob appends for the ingest keys
IngestAssets ==
    { NewVideo(OrStr(extractMovieInfo(k).id, r), "T", "D", k, SignedUrl(k)) :
        k \in IngestKeys, r \in RandomIds }

\* the snapshots the readers are applied to: nothing or the snapshot of a
\* pass, followed by up to MaxAppends appended assets
Snapshots ==
    { pass \o appended :
        pass \in {<<>>} \cup { PassSnapshot(l, dv) : l \in Listings, dv \in InitTables },
        appended \in UNION { [1..k -> IngestAssets] : k \in 0..MaxAppends } }

\* the ids GET /api/content/video/:id is asked for
RequestIds == {"1", "2", "3", "7", "9", "1abc", "abc"}

QueryInit ==
    /\ videosCache \in Snapshots
    /\ lastCacheRefresh = StartTime
    /\ dynamoTable = <<>>
    /\ devMode = TRUE
    /\ clock = StartTime
    /\ readCalls = 0
    /\ ingestCalls = 0
    /\ pc = [p \in Procs |-> "idle"]
    /\ now = [p \in Procs |-> 0]
    /\ s3Videos = [p \in Procs |-> <<>>]
    /\ dynamoVideos = [p \in Procs |-> <<>>]
    /\ processedVideos = [p \in Procs |-> <<>>]
    /\ idx = [p \in Procs |-> 0]
    /\ refreshed = [p \in Procs |-> "none"]
    /\ job = [p \in Procs |-> NoJob]
    /\ response = NoResponse
    /\ watchlist = <<>>
    /\ watchHistory = <<>>
    /\ userCalls = 0
    /\ StreamIdle
    /\ PlayerIdle

\* a reader answers from the snapshot and changes nothing
Query(call, value) ==
    /\ response' = [slot |-> 1, call |-> call, refreshed |-> "fresh", value |-> value]
    /\ UNCHANGED <<videosCache, lastCacheRefresh, dynamoTable, devMode, clock, readCalls,
                   ingestCalls, pc, now, s3Videos, dynamoVideos, processedVideos, idx,
                   refreshed, job, userState, streamState, playerState>>

\* lines 206-251
QueryCategories ==
    \E matches \in [1..Len(videosCache) -> MatchValues] :
        Query("getContentCategories",
              [ok |-> TRUE, categories |-> getContentCategories(videosCache, matches)])

\* routes, lines 118-132
QueryVideo ==
    \E param \in RequestIds :
        Query("getVideoById", GetVideoRoute(videosCache, param))

\* lines 282-311
QueryRecommended ==
    \E randoms \in [1..Len(videosCache) -> Randoms] :
        Query("getRecommendedVideos",
              [ok |-> TRUE, videos |-> getRecommendedVideos(videosCache, randoms)])

QueryNext ==
    \/ QueryCategories
    \/ QueryVideo
    \/ QueryRecommended

SpecQuery == QueryInit /\ [][QueryNext]_vars

(* ---------------------------- stream route ------------------------------ *)
\* everything the catalog, the ingest and the user calls work on
catalogState == <<videosCache, lastCacheRefresh, dynamoTable, devMode, clock, readCalls,
                  ingestCalls, pc, now, s3Videos, dynamoVideos, processedVideos, idx,
                  refreshed, job, response, userState>>

\* one request GET /api/content/stream/:key arrives at an idle server
StreamInit ==
    /\ videosCache = PassSnapshot(<<K2V, K1V, K1T>>, <<R2, R3>>)
    /\ lastCacheRefresh = StartTime
    /\ dynamoTable = <<R2, R3>>
    /\ devMode = TRUE
    /\ clock = StartTime
    /\ readCalls = 0
    /\ ingestCalls = 0
    /\ pc = [p \in Procs |-> "idle"]
    /\ now = [p \in Procs |-> 0]
    /\ s3Videos = [p \in Procs |-> <<>>]
    /\ dynamoVideos = [p \in Procs |-> <<>>]
    /\ processedVideos = [p \in Procs |-> <<>>]
    /\ idx = [p \in Procs |-> 0]
    /\ refreshed = [p \in Procs |-> "none"]
    /\ job = [p \in Procs |-> NoJob]
    /\ response = NoResponse
    /\ watchlist = <<>>
    /\ watchHistory = <<>>
    /\ userCalls = 0
    /\ request \in Requests
    /\ stream = [NoStream EXCEPT !.pc = "start"]
    /\ res = NoRes
    /\ upstream = "idle"
    /\ client = "connected"
    /\ PlayerIdle

\* lines 378-385: the locals of a handler whose key decoded to finalKey
Started(decoded) ==
    [stream EXCEPT !.finalKey = decoded.finalKey, !.passes = decoded.passes,
                   !.fileExtension = FileExtension(decoded.finalKey),
                   !.contentType = ContentType(FileExtension(decoded.finalKey))]

\* line 392-394: the request is served through CloudFront
UsesCloudFront(decoded) ==
    request.cloudFront /\ FileExtension(decoded.finalKey) \in CloudFrontExtensions

\* a fetch is sent; the upstream answers it in time or never
SendFetch == upstream' \in {"pending", "silent"}

\* lines 431-435 and 490-492: the handler goes on to the origin and awaits
\* the signed URL of its tier
ToOrigin(s) ==
    [s EXCEPT !.pc = "sign", !.tier = OriginTier(s.fileExtension, request.range)]

\* lines 371-374 and 545-548: decodeURIComponent throws, the outer catch
\* answers
StreamDecodeThrows ==
    /\ stream.pc = "start"
    /\ FinalKey(request.key).thrown
    /\ stream' = [stream EXCEPT !.pc = "done", !.passes = FinalKey(request.key).passes]
    /\ res' = Json(500, "Failed to stream content", "URIError")
    /\ UNCHANGED <<catalogState, playerState, request, upstream, client>>

\* lines 365-400: the key is decoded, CloudFront signs it and the fetch of
\* the signed URL is sent, without any header
StreamCloudFront ==
    LET decoded == FinalKey(request.key)
    IN /\ stream.pc = "start"
       /\ ~decoded.thrown
       /\ UsesCloudFront(decoded)
       /\ stream' = [Started(decoded) EXCEPT !.pc = "fetch", !.tier = 1, !.sentRange = Null,
                                             !.fetched = @ \cup {1}, !.edge = "url"]
       /\ SendFetch
       /\ UNCHANGED <<catalogState, playerState, request, res, client>>

\* lines 395 and 426-429: getSignedUrl of CloudFront throws, the handler
\* falls back to S3
StreamCloudFrontSignThrows ==
    LET decoded == FinalKey(request.key)
    IN /\ stream.pc = "start"
       /\ ~decoded.thrown
       /\ UsesCloudFront(decoded)
       /\ stream' = ToOrigin([Started(decoded) EXCEPT !.edge = "thrown"])
       /\ UNCHANGED <<catalogState, playerState, request, res, upstream, client>>

\* (mutation) the handler calls refreshCache on its way to the origin
StreamOriginRefreshing ==
    LET decoded == FinalKey(request.key)
    IN /\ stream.pc = "start"
       /\ ~decoded.thrown
       /\ ~UsesCloudFront(decoded)
       /\ stream' = ToOrigin(Started(decoded))
       /\ pc' = [pc EXCEPT ![1] = "listVideos"]
       /\ now' = [now EXCEPT ![1] = clock]
       /\ lastCacheRefresh' = 0
       /\ UNCHANGED <<videosCache, dynamoTable, devMode, clock, readCalls, ingestCalls,
                      s3Videos, dynamoVideos, processedVideos, idx, refreshed, job, response,
                      userState, playerState, request, res, upstream, client>>

\* lines 365-392: the key is decoded and CloudFront is not used
StreamOrigin ==
    LET decoded == FinalKey(request.key)
    IN /\ stream.pc = "start"
       /\ ~decoded.thrown
       /\ ~UsesCloudFront(decoded)
       /\ stream' = ToOrigin(Started(decoded))
       /\ UNCHANGED <<catalogState, playerState, request, res, upstream, client>>

\* lines 400-423: CloudFront answers; whatever its status, the answer is
\* relayed
CloudFrontResolves ==
    /\ stream.pc = "fetch"
    /\ stream.tier = 1
    /\ upstream = "pending"
    /\ \E up \in UpstreamResponses(stream.sentRange) :
           /\ stream' = [stream EXCEPT !.pc = "relaying", !.got = up, !.edge = "relayed"]
           /\ res' = Relay1(up, stream.contentType)
    /\ upstream' = "open"
    /\ UNCHANGED <<catalogState, playerState, request, client>>

\* lines 400 and 426-429: the fetch from CloudFront fails, the handler falls
\* back to S3
CloudFrontRejects ==
    /\ stream.pc = "fetch"
    /\ stream.tier = 1
    /\ upstream = "pending"
    /\ stream' = ToOrigin([stream EXCEPT !.edge = "rejected"])
    /\ upstream' = "closed"
    /\ UNCHANGED <<catalogState, playerState, request, res, client>>

\* lines 435-447 and 492-500: getSignedVideoUrl answers a URL and the fetch
\* is sent, with the Range header of the request in tier 2
SignResolves ==
    /\ stream.pc = "sign"
    /\ "url" \in SignedVideoUrlOutcomes
    /\ stream' = [stream EXCEPT !.pc = "fetch", !.signed = "url",
                                !.sentRange = IF stream.tier = 2 THEN request.range ELSE Null,
                                !.fetched = @ \cup {stream.tier}]
    /\ SendFetch
    /\ UNCHANGED <<catalogState, playerState, request, res, client>>

\* lines 437-439 and 494-496: getSignedVideoUrl answers nothing
SignResolvesNull ==
    /\ stream.pc = "sign"
    /\ "null" \in SignedVideoUrlOutcomes
    /\ stream' = [stream EXCEPT !.pc = "done", !.signed = "null"]
    /\ res' = Json(404, "Content not found", Null)
    /\ UNCHANGED <<catalogState, playerState, request, upstream, client>>

\* lines 435, 492 and 545-548: getSignedVideoUrl throws outside the inner
\* try, the outer catch answers
SignRejects ==
    /\ stream.pc = "sign"
    /\ "thrown" \in SignedVideoUrlOutcomes
    /\ stream' = [stream EXCEPT !.pc = "done", !.signed = "thrown"]
    /\ res' = Json(500, "Failed to stream content", "SigningFailed")
    /\ UNCHANGED <<catalogState, playerState, request, upstream, client>>

\* lines 447-482: S3 answers the ranged request; whatever its status, the
\* answer is relayed
RangeResolves ==
    /\ stream.pc = "fetch"
    /\ stream.tier = 2
    /\ upstream = "pending"
    /\ \E up \in UpstreamResponses(stream.sentRange) :
           /\ stream' = [stream EXCEPT !.pc = "relaying", !.got = up]
           /\ res' = Relay2(up, stream.contentType)
    /\ upstream' = "open"
    /\ UNCHANGED <<catalogState, playerState, request, client>>

\* lines 483-487
RangeRejects ==
    /\ stream.pc = "fetch"
    /\ stream.tier = 2
    /\ upstream = "pending"
    /\ stream' = [stream EXCEPT !.pc = "done"]
    /\ res' = Json(500, "Error streaming video content", Null)
    /\ upstream' = "closed"
    /\ UNCHANGED <<catalogState, playerState, request, client>>

\* lines 500-540: S3 answers the standard request; an answer that is not OK
\* is read to its end and surfaced, an OK answer is relayed
StandardResolves ==
    /\ stream.pc = "fetch"
    /\ stream.tier = 3
    /\ upstream = "pending"
    /\ \E up \in UpstreamResponses(stream.sentRange) :
           /\ stream' = [stream EXCEPT !.pc = IF Ok(up.status) THEN "relaying" ELSE "done",
                                       !.got = up]
           /\ res' = Answer3(up, stream.contentType)
           /\ upstream' = IF Ok(up.status) THEN "open" ELSE "closed"
    /\ UNCHANGED <<catalogState, playerState, request, client>>

\* lines 541-544
StandardRejects ==
    /\ stream.pc = "fetch"
    /\ stream.tier = 3
    /\ upstream = "pending"
    /\ stream' = [stream EXCEPT !.pc = "done"]
    /\ res' = Json(500, "Error streaming content", "FetchError")
    /\ upstream' = "closed"
    /\ UNCHANGED <<catalogState, playerState, request, client>>

\* lines 419, 478 and 537, pipe: the body of the upstream ends and with it
\* the response
RelayEnds ==
    /\ stream.pc = "relaying"
    /\ client = "connected"
    /\ upstream = "open"
    /\ stream' = [stream EXCEPT !.pc = "done"]
    /\ upstream' = "closed"
    /\ UNCHANGED <<catalogState, playerState, request, res, client>>

\* lines 419, 478 and 537, pipe: the client goes away; the pipe stops
\* reading the body of the upstream and nothing closes it
ClientDisconnects ==
    /\ stream.pc = "relaying"
    /\ client = "connected"
    /\ client' = "gone"
    /\ UNCHANGED <<catalogState, playerState, request, stream, res, upstream>>

StreamNext ==
    \/ StreamDecodeThrows
    \/ StreamCloudFront
    \/ StreamCloudFrontSignThrows
    \/ StreamOrigin
    \/ CloudFrontResolves
    \/ CloudFrontRejects
    \/ SignResolves
    \/ SignResolvesNull
    \/ SignRejects
    \/ RangeResolves
    \/ RangeRejects
    \/ StandardResolves
    \/ StandardRejects
    \/ RelayEnds
    \/ ClientDisconnects

SpecStream == StreamInit /\ [][StreamNext]_vars

\* every step of the handler that can be taken is taken in the end; an
\* upstream that is silent enables no step
SpecStreamLive == SpecStream /\ WF_vars(StreamNext)

(* ---------------------- VideoPlayer component, steps -------------------- *)
MaxLoads == 3

\* lines 127-288, first render and its effects: the state is initialised
\* from the props (lines 143-145) and the effect of line 179 creates the
\* player with currentSrc as its source; the ready callback closes over
\* the currentSrc of this render
Mount ==
    /\ component.phase = "none"
    /\ \E fallbackSrc \in FallbackProps, autoplay \in BOOLEAN :
         component' = [NoComponent EXCEPT
                          !.phase = "mounted", !.src = PrimarySrc,
                          !.fallbackSrc = fallbackSrc, !.autoplay = autoplay,
                          !.currentSrc = PrimarySrc,
                          !.deps = [isError |-> FALSE, currentSrc |-> PrimarySrc,
                                    attemptedFallback |-> FALSE],
                          !.closure = [currentSrc |-> PrimarySrc]]
    /\ playerRef' = [exists |-> TRUE, src |-> PrimarySrc, status |-> "loading",
                     paused |-> TRUE, attached |-> TRUE]
    /\ UNCHANGED <<catalogState, streamState>>

\* lines 209-268: the player is ready and the error listener is registered
Ready ==
    /\ playerRef.exists
    /\ ~component.listening
    /\ component' = [component EXCEPT !.listening = TRUE]
    /\ UNCHANGED <<catalogState, streamState, playerRef>>

\* the media of the player's source loads; with autoplay it starts to play
MediaLoads ==
    /\ playerRef.exists
    /\ playerRef.status = "loading"
    /\ playerRef' = [playerRef EXCEPT !.status = "loaded",
                                      !.paused = IF component.autoplay THEN FALSE ELSE @]
    /\ UNCHANGED <<catalogState, streamState, component>>

\* the viewer presses play (read by paused() at line 228)
UserPlays ==
    /\ playerRef.exists
    /\ playerRef.status \in {"loading", "loaded"}
    /\ playerRef.paused
    /\ playerRef' = [playerRef EXCEPT !.paused = FALSE]
    /\ UNCHANGED <<catalogState, streamState, component>>

\* line 221: the listener takes the fallback branch; currentSrc is the value
\* the ready callback closed over
TriesFallback(c) ==
    c.fallbackSrc # Null /\ c.fallbackSrc # c.closure.currentSrc

\* lines 216-266: the media of the player's source fails, the player emits
\* 'error' and the listener runs
PlayerError ==
    /\ playerRef.exists
    /\ component.listening
    /\ playerRef.status \in {"loading", "loaded"}
    /\ IF TriesFallback(component)
       THEN /\ component.fallbackLoads < MaxLoads
            /\ playerRef' = [playerRef EXCEPT !.src = component.fallbackSrc,
                                              !.status = "loading", !.paused = TRUE]
            /\ component' =
                 [component EXCEPT
                     !.currentSrc = component.fallbackSrc,
                     !.fallbackLoads = @ + 1,
                     !.timers = IF ~playerRef.paused \/ component.autoplay
                                THEN @ + 1 ELSE @]
       ELSE /\ playerRef' = [playerRef EXCEPT !.status = "error"]
            /\ component' = [component EXCEPT !.isError = TRUE,
                                              !.onErrorCalls = @ + 1]
    /\ UNCHANGED <<catalogState, streamState>>

\* lines 245-254: the timer fires and play() returns its promise
TimerPlays ==
    /\ component.timers > 0
    /\ playerRef.exists
    /\ component' = [component EXCEPT !.timers = @ - 1, !.plays = @ + 1]
    /\ playerRef' = [playerRef EXCEPT !.paused = FALSE]
    /\ UNCHANGED <<catalogState, streamState>>

\* lines 245-259: the timer fires after the unmount, playerRef.current is
\* null and the catch calls onError; the state of an unmounted component
\* is not set any more
TimerThrows ==
    /\ component.timers > 0
    /\ ~playerRef.exists
    /\ component' = [component EXCEPT !.timers = @ - 1, !.onErrorCalls = @ + 1]
    /\ UNCHANGED <<catalogState, streamState, playerRef>>

\* line 247: the play promise resolves
PlayResolves ==
    /\ component.plays > 0
    /\ component' = [component EXCEPT !.plays = @ - 1]
    /\ UNCHANGED <<catalogState, streamState, playerRef>>

\* lines 249-253: the play promise rejects
PlayRejects ==
    /\ component.plays > 0
    /\ component' = [component EXCEPT
                        !.plays = @ - 1,
                        !.isError = IF component.phase = "mounted" THEN TRUE ELSE @,
                        !.onErrorCalls = @ + 1]
    /\ UNCHANGED <<catalogState, streamState, playerRef>>

\* lines 269-286: the effect of line 179 runs again with a player in place
SourceEffect(c, player) ==
    [player EXCEPT !.src = c.currentSrc, !.status = "loading",
                   !.paused = IF c.autoplay THEN FALSE ELSE @]

\* lines 301-333: the effect of the last resort, on the component
FallbackEffect(c) ==
    IF c.isError /\ c.fallbackSrc # Null
    THEN IF c.attemptedFallback
         THEN [c EXCEPT !.direct = c.fallbackSrc, !.isError = FALSE]
         ELSE [c EXCEPT !.attemptedFallback = TRUE]
    ELSE c

\* line 309: the container of the player is emptied
FallbackEffectClears(c) ==
    c.isError /\ c.fallbackSrc # Null /\ c.attemptedFallback

\* a state changed: the component renders again and the effects whose
\* dependencies changed run (lines 179-288 on currentSrc, lines 301-333 on
\* isError and attemptedFallback)
Rerender ==
    /\ component.phase = "mounted"
    /\ component.deps # StateOf(component)
    /\ LET c == component
           runSource == c.deps.currentSrc # c.currentSrc
           runFallback == \/ c.deps.isError # c.isError
                          \/ c.deps.attemptedFallback # c.attemptedFallback
           sourced == IF runSource THEN SourceEffect(c, playerRef) ELSE playerRef
           loaded == IF runSource /\ c.currentSrc = c.fallbackSrc
                     THEN [c EXCEPT !.fallbackLoads = @ + 1] ELSE c
           after == IF runFallback THEN FallbackEffect(loaded) ELSE loaded
       IN /\ component' = [after EXCEPT !.deps = StateOf(c)]
          /\ playerRef' = IF runFallback /\ FallbackEffectClears(c)
                          THEN [sourced EXCEPT !.attached = FALSE]
                          ELSE sourced
    /\ UNCHANGED <<catalogState, streamState>>

\* lines 291-298: the component unmounts and the player is disposed
Unmount ==
    /\ component.phase = "mounted"
    /\ component' = [component EXCEPT !.phase = "unmounted", !.listening = FALSE]
    /\ playerRef' = NoPlayer
    /\ UNCHANGED <<catalogState, streamState>>

PlayerNext ==
    \/ Mount
    \/ Ready
    \/ MediaLoads
    \/ UserPlays
    \/ PlayerError
    \/ TimerPlays
    \/ TimerThrows
    \/ PlayResolves
    \/ PlayRejects
    \/ Rerender
    \/ Unmount

\* one VideoPlayer beside an idle server
PlayerInit == Init /\ devMode /\ dynamoTable = <<>>

SpecPlayer == PlayerInit /\ [][PlayerNext]_vars

(* ======================= properties of the catalog ===================== *)
\* the request p takes this step
Steps(p) == pc'[p] # pc[p]

\* this step ends the pass of p with the swap of lines 159-160
SwapBy(p) == InPass(p) /\ refreshed'[p] = "swapped"

\* the structured records the pass of p works on
RecordsOf(p) == IF pc[p] = "getDynamoVideos" THEN dynamoTable ELSE dynamoVideos[p]

\* this step is the append of line 406
AppendBy(p) ==
    /\ pc[p] = "ingestSign"
    /\ Len(videosCache') = Len(videosCache) + 1
    /\ SubSeq(videosCache', 1, Len(videosCache)) = videosCache

Ids(seq) == [n \in 1..Len(seq) |-> seq[n].id]
Range(seq) == { seq[n] : n \in 1..Len(seq) }
HasVideoFile(movie) == FindFile(movie, "mp4") # Null

\* ids of the bulk-listing groups that have a video file, in listing order
VideoMovieIds(l) == Ids(SelectSeq(Movies(l), HasVideoFile))

\* ids a complete pass over listing l and records dv puts into its snapshot
ExpectedIds(l, dv) ==
    LET fromS3 == VideoMovieIds(l)
        rest == { n \in 1..Len(dv) : dv[n].id \notin Range(fromS3) }
        RECURSIVE Pick(_)
        Pick(n) == IF n > Len(dv) THEN <<>>
                   ELSE IF n \in rest THEN <<dv[n].id>> \o Pick(n + 1)
                   ELSE Pick(n + 1)
    IN fromS3 \o Pick(1)

\* C1: snapshot atomicity. The live cache, which every reader reads in one
\* step, changes only by the swap that ends a pass, and then to the complete
\* catalog of that pass (one entry for every video group of the listing it
\* read and every other structured record it read, in that order), or by
\* the one-asset append of requestTranscodeJob; a half-built catalog of a
\* running pass is never in the live cache.
C1_SnapshotAtomicity ==
    [][videosCache' # videosCache =>
         \/ \E p \in Procs :
               /\ SwapBy(p)
               /\ Ids(videosCache') = ExpectedIds(s3Videos[p], RecordsOf(p))
         \/ \E p \in Procs : AppendBy(p)]_vars

\* a reader has answered from a non-empty cache while the pass of another
\* request holds a half-built catalog that differs from the live one
C1_Witness ==
    \E p, q \in Procs :
        /\ pc[p] \in {"signS3", "putS3", "signDynamo"}
        /\ Len(processedVideos[p]) > 0
        /\ processedVideos[p] # videosCache
        /\ Len(videosCache) > 0
        /\ q # p
        /\ response.slot = q
        /\ response.call = "getFeaturedContent"
        /\ response.value.ok

\* C2: stale on error. Every step of a refreshCache call up to and including
\* the failure of its bulk listing or of its record read leaves the
\* snapshot and lastCacheRefresh as they were, the call returns normally, and
\* the reader then answers from the non-empty snapshot without an error.
C2_StaleOnError ==
    [][\A p \in Procs :
         /\ (Steps(p) /\ pc[p] \in {"idle", "listVideos", "getDynamoVideos"}
                 /\ pc'[p] \in {"listVideos", "getDynamoVideos"})
              => (videosCache' = videosCache /\ lastCacheRefresh' = lastCacheRefresh)
         /\ (pc[p] \in {"listVideos", "getDynamoVideos"}
                 /\ refreshed'[p] \in {"fetchFailed"})
              => /\ videosCache' = videosCache
                 /\ lastCacheRefresh' = lastCacheRefresh
                 /\ pc'[p] = "read"
         /\ (pc[p] = "read" /\ Steps(p) /\ Len(videosCache) > 0
                 /\ refreshed[p] \in {"fetchFailed"})
              => (response'.slot = p /\ response'.value.ok /\ pc'[p] = "idle")]_vars

\* a source fetch has failed on a non-empty catalog and the reader answered
C2_Witness ==
    /\ response.call = "getFeaturedContent"
    /\ response.refreshed = "fetchFailed"
    /\ response.value.ok
    /\ Len(videosCache) > 0

\* C3: TTL respect. A reader call made with now - lastCacheRefresh < 60 s and
\* a non-empty cache goes straight on to read the cache: it is never
\* suspended at a source call (listing, record read, signing, mirror
\* write), and none of its steps changes the snapshot, lastCacheRefresh or
\* the record store.
C3_TtlRespect ==
    [][\A p \in Procs :
         /\ (Free(p) /\ Steps(p) /\ pc'[p] # "ingestSign"
                 /\ clock - lastCacheRefresh < 60000 /\ Len(videosCache) > 0)
              => (pc'[p] = "read" /\ refreshed'[p] = "fresh" /\ UNCHANGED shared)
         /\ refreshed'[p] = "fresh" => pc'[p] = "read"
         /\ (refreshed[p] = "fresh" /\ Steps(p)) => UNCHANGED shared]_vars

\* a call has found the cache fresh and has answered
C3_Witness ==
    /\ response.call = "getFeaturedContent"
    /\ response.refreshed = "fresh"
    /\ response.value.ok
    /\ Len(videosCache) > 0
    /\ clock - lastCacheRefresh < CACHE_TTL

\* C4: single flight. At most one refresh pass is in flight at any time.
C4_SingleFlight ==
    Cardinality({ p \in Procs : InPass(p) }) <= 1

\* C5: requestTranscodeJob appends to the snapshot only while no refresh
\* pass is in flight.
C5_IngestExcludesRefresh ==
    [][\A p \in Procs : AppendBy(p) => \A q \in Procs : ~InPass(q)]_vars

\* ids of all groups of the bulk listing, with or without a video file
ListingIds(l) == Range(Ids(Movies(l)))

\* the group of the bulk listing l that has the id
MovieOf(l, id) == Movies(l)[CHOOSE n \in 1..Len(Movies(l)) : Movies(l)[n].id = id]

\* the entry is the one lines 85-99 build for the group of its id
IsBulkVersion(entry, l) ==
    entry = S3ProcessedVideo(MovieOf(l, entry.id), entry.videoUrl)

\* the snapshot holds the bulk-listing version of every id in idSet, once
BulkVersionWins(cache, l, idSet) ==
    \A id \in idSet :
        /\ Cardinality({ n \in 1..Len(cache) : cache[n].id = id }) = 1
        /\ \A n \in 1..Len(cache) : cache[n].id = id => IsBulkVersion(cache[n], l)

\* C6 as stated: after a successful pass the entry of every id that is in
\* the bulk listing and in the structured-record set is the bulk-listing
\* version.
C6_MergePrecedenceAnyGroup ==
    [][\A p \in Procs : SwapBy(p) =>
          BulkVersionWins(videosCache', s3Videos[p],
                          ListingIds(s3Videos[p]) \cap Range(Ids(RecordsOf(p))))]_vars

\* C6 amended: after a successful pass the entry of every id that is in the
\* structured-record set and whose bulk-listing group has a video file is
\* the bulk-listing version, and it is the only entry of that id.
C6_MergePrecedence ==
    [][\A p \in Procs : SwapBy(p) =>
          BulkVersionWins(videosCache', s3Videos[p],
                          Range(VideoMovieIds(s3Videos[p])) \cap Range(Ids(RecordsOf(p))))]_vars

\* a pass over a listing with the video of movie 2 and a record store that
\* holds a row of id 2 has swapped in the bulk-listing version of movie 2
C6_Witness ==
    \E p \in Procs :
        /\ refreshed[p] = "swapped"
        /\ devMode
        /\ dynamoTable = <<R2, R3>>
        /\ \E n \in 1..Len(videosCache) :
              /\ videosCache[n].id = "2"
              /\ IsBulkVersion(videosCache[n], <<K2V, K1V, K1T>>)

\* C7: no two assets of the snapshot have the same id.
C7_UniqueIds ==
    \A m, n \in 1..Len(videosCache) : m # n => videosCache[m].id # videosCache[n].id

\* C8: after a successful pass whose bulk listing has a group with a video
\* file, exactly the asset of the first such group is featured and every
\* other asset of the snapshot, from either source, is not.
C8_FeaturedIsFirstDiscovered ==
    [][\A p \in Procs : (SwapBy(p) /\ VideoMovieIds(s3Videos[p]) # <<>>) =>
          \A n \in 1..Len(videosCache') :
              videosCache'[n].featured <=> (n = 1 /\ videosCache'[n].id = VideoMovieIds(s3Videos[p])[1])]_vars

\* C9: after a successful pass whose bulk listing has a group with a video
\* file, getFeaturedContent returns the asset of the first such group.
C9_GetFeaturedIsFirstDiscovered ==
    [][\A p \in Procs : (SwapBy(p) /\ VideoMovieIds(s3Videos[p]) # <<>>) =>
          /\ getFeaturedContent(videosCache').ok
          /\ getFeaturedContent(videosCache').video.id
                = parseInt(VideoMovieIds(s3Videos[p])[1])]_vars

\* C10: after a successful pass every asset of the snapshot has a non-empty
\* playback key.
C10_PlaybackKeyPresent ==
    [][\A p \in Procs : SwapBy(p) =>
          \A n \in 1..Len(videosCache') : videosCache'[n].hlsUrl \notin {"", Null}]_vars

(* ================= failures inside a pass and the ingest =============== *)
\* C11: a failing signing of one asset does not abort the pass. Every step
\* that takes a pass out of a signing await, whether the signing resolved or
\* rejected, goes on with the pass or ends it with the swap.
C11_SignFailureKeepsPass ==
    [][\A p \in Procs :
         (pc[p] \in {"signS3", "signDynamo"} /\ Steps(p)) =>
             (pc'[p] \in PassStates \/ refreshed'[p] = "swapped")]_vars

\* the list the pass of p has built so far is kept as it is
KeepsBuilt(p) ==
    /\ Len(processedVideos'[p]) >= Len(processedVideos[p])
    /\ SubSeq(processedVideos'[p], 1, Len(processedVideos[p])) = processedVideos[p]

\* C12: a mirror write never fails the pass. Every step that takes a pass out
\* of the await of a mirror write, whether the write took or failed, either
\* goes on with the pass, the asset of the write still in its list, or ends
\* it with the swap: the snapshot then starts with the list built so far,
\* holds every asset of the listing and the records, and lastCacheRefresh is
\* the time the pass started.
C12_MirrorFailureKeepsPass ==
    [][\A p \in Procs :
         (pc[p] = "putS3" /\ Steps(p)) =>
             \/ /\ pc'[p] \in PassStates
                /\ KeepsBuilt(p)
                /\ videosCache' = videosCache
             \/ /\ refreshed'[p] = "swapped"
                /\ SubSeq(videosCache', 1, Len(processedVideos[p])) = processedVideos[p]
                /\ Ids(videosCache') = ExpectedIds(s3Videos[p], dynamoVideos[p])
                /\ lastCacheRefresh' = now[p]]_vars

\* in production mode a pass over the two videos of the listing has swapped
\* in both assets although the record store, empty before, took neither of
\* their mirror writes
C12_Witness ==
    \E p \in Procs :
        /\ refreshed[p] = "swapped"
        /\ ~devMode
        /\ dynamoTable = <<>>
        /\ Ids(videosCache) = <<"2", "1">>
        /\ lastCacheRefresh = StartTime

\* the fetches of lines 46 and 47 that the call of p has in flight
ListingInFlight(p) == pc[p] = "listVideos"
RecordReadInFlight(p) == pc[p] = "getDynamoVideos"

\* C13: on a stale call the record read is issued without waiting for the
\* bulk listing: while the bulk listing of a pass is in flight, its record
\* read is in flight too.
C13_FetchesConcurrent ==
    \A p \in Procs : ListingInFlight(p) => RecordReadInFlight(p)

\* C14: a requestTranscodeJob call that returns an id appends exactly one
\* asset of that id to the live snapshot, leaves lastCacheRefresh alone, and
\* the asset is in the snapshot when the call returns.
C14_IngestAppendsVisible ==
    [][\A p \in Procs :
         /\ (pc[p] = "ingestSign" /\ Steps(p) /\ videosCache' # videosCache) =>
                /\ AppendBy(p)
                /\ videosCache'[Len(videosCache')].id = job[p].id
                /\ lastCacheRefresh' = lastCacheRefresh
         /\ (/\ pc[p] \in {"ingestSign", "ingestPut"}
             /\ response'.slot = p
             /\ response'.value.ok
             /\ response'.value.videoId # Null) =>
                /\ response'.value.videoId = job[p].id
                /\ \E n \in 1..Len(videosCache') :
                      videosCache'[n].id = response'.value.videoId]_vars

\* C15: the mirror write of requestTranscodeJob is best-effort: whether it
\* took or failed, the call returns the id of the appended asset.
C15_IngestMirrorBestEffort ==
    [][\A p \in Procs :
         (pc[p] = "ingestPut" /\ Steps(p)) =>
             /\ response'.value.ok
             /\ response'.value.videoId = job[p].id]_vars

(* ============================ catalog readers ========================== *)
\* the answer video is the conversion of the snapshot entry
VideoOf(video, entry) ==
    /\ video.id = parseInt(entry.id)
    /\ video.title = entry.title
    /\ video.description = entry.description
    /\ video.hlsUrl = entry.hlsUrl
    /\ video.category = entry.category
    /\ video.featured = entry.featured

\* C18: getFeaturedContent answers with the first entry in snapshot order
\* that is flagged featured if there is one, otherwise with the first entry,
\* and fails with 'No videos available' exactly when the snapshot it reads
\* after refreshCache is empty.
C18_GetFeatured ==
    response.call = "getFeaturedContent" =>
        /\ response.value.ok <=> Len(videosCache) > 0
        /\ ~response.value.ok => response.value.error = "No videos available"
        /\ response.value.ok =>
              \E n \in 1..Len(videosCache) :
                 /\ VideoOf(response.value.video, videosCache[n])
                 /\ \A m \in 1..(n - 1) : ~videosCache[m].featured
                 /\ videosCache[n].featured
                       \/ (n = 1 /\ \A m \in 1..Len(videosCache) : ~videosCache[m].featured)

\* getFeaturedContent has answered with a flagged entry that is not the
\* first entry of the snapshot
C18_Witness ==
    /\ response.call = "getFeaturedContent"
    /\ response.value.ok
    /\ Len(videosCache) > 1
    /\ ~videosCache[1].featured
    /\ response.value.video.featured
    /\ response.value.video.id # parseInt(videosCache[1].id)

(* ===================== the non-production mode flag ==================== *)
\* the awaits of a write to the structured-record store
PutStates == {"putS3", "ingestPut", "watchlistPut", "historyPut"}

\* C16: in non-production mode no operation issues a write to the
\* structured-record store: no call ever waits on a write and none of the
\* three tables changes.
C16_NoStoreWriteInDev ==
    [][devMode =>
         /\ \A p \in Procs : pc'[p] \notin PutStates
         /\ dynamoTable' = dynamoTable
         /\ watchlist' = watchlist
         /\ watchHistory' = watchHistory]_vars

\* in non-production mode a pass has built a catalog, an ingest has appended
\* to it and a watchlist call has just answered, the tables still empty
C16_Witness ==
    /\ devMode
    /\ response.call \in {"addToWatchlist", "updateWatchHistory"}
    /\ response.value.ok
    /\ lastCacheRefresh > 0
    /\ Len(videosCache) = 3
    /\ videosCache[3].rating = "NR"
    /\ dynamoTable = <<>>
    /\ watchlist = <<>>
    /\ watchHistory = <<>>

\* the calls whose errors the non-production mode turns into success
GuardedCalls ==
    {"requestTranscodeJob", "addToWatchlist", "removeFromWatchlist", "updateWatchHistory"}

\* the work the call of p answers for has been done
WorkDone(p) ==
    CASE response'.call = "requestTranscodeJob" ->
            /\ \E n \in 1..Len(dynamoTable') : dynamoTable'[n].id = job[p].id
            /\ response'.value.videoId = job[p].id
      [] response'.call = "addToWatchlist" ->
            \E n \in 1..Len(watchlist') :
                watchlist'[n] = WatchlistItem(job[p].userId, job[p].videoId)
      [] response'.call = "updateWatchHistory" ->
            \E n \in 1..Len(watchHistory') :
                watchHistory'[n] = HistoryItem(job[p].userId, job[p].videoId)
      [] OTHER -> TRUE

\* C17: in non-production mode requestTranscodeJob, addToWatchlist,
\* removeFromWatchlist and updateWatchHistory always answer with success; in
\* production mode an error inside them reaches the caller: a call answers
\* with success only when its signing and its write went through.
C17_DevModeNeverFails ==
    [][\A p \in Procs :
         (response'.slot = p /\ response'.call \in GuardedCalls) =>
             /\ devMode => response'.value.ok
             /\ (~devMode /\ response'.value.ok) => WorkDone(p)]_vars

\* in non-production mode requestTranscodeJob has answered with success
\* although its signing failed: nothing was appended and no id is returned
C17_Witness ==
    /\ devMode
    /\ response.call = "requestTranscodeJob"
    /\ response.value.ok
    /\ response.value.videoId = Null
    /\ videosCache = <<>>
    /\ userCalls > 0

\* the entries of the snapshot that have the category, in snapshot order
OfCategory(cache, category) == SelectSeq(cache, LAMBDA v : v.category = category)

\* position of the first entry of the snapshot that has the category
FirstSeen(cache, category) ==
    CHOOSE k \in 1..Len(cache) :
        /\ cache[k].category = category
        /\ \A j \in 1..(k - 1) : cache[j].category # category

\* C19: getContentCategories partitions the snapshot by category. The groups
\* carry the ids 1, 2, 3, ... and distinct titles, ordered by the first
\* appearance of their category in the snapshot; every category of the
\* snapshot has its group; and the videos of a group are exactly the entries
\* of its category, in snapshot order.
C19_CategoriesPartition ==
    response.call = "getContentCategories" =>
        LET categories == response.value.categories
        IN /\ \A n \in 1..Len(categories) :
                 LET entries == OfCategory(videosCache, categories[n].title)
                 IN /\ categories[n].id = n
                    /\ Len(entries) > 0
                    /\ Len(categories[n].videos) = Len(entries)
                    /\ \A j \in 1..Len(entries) :
                          VideoOf(categories[n].videos[j], entries[j])
           /\ \A m, n \in 1..Len(categories) :
                 m < n => FirstSeen(videosCache, categories[m].title)
                             < FirstSeen(videosCache, categories[n].title)
           /\ \A k \in 1..Len(videosCache) :
                 \E n \in 1..Len(categories) :
                    categories[n].title = videosCache[k].category

\* the categories of a snapshot of four entries of three categories, two of
\* them sharing a genre, have been listed
C19_Witness ==
    /\ response.call = "getContentCategories"
    /\ Len(videosCache) = 4
    /\ Len(response.value.categories) = 3
    /\ \E m, n \in 1..Len(videosCache) :
          /\ videosCache[m].genre = videosCache[n].genre
          /\ videosCache[m].category # videosCache[n].category

\* C20: the video route answers 200 with the snapshot asset of the requested
\* id whenever the snapshot holds an asset of that id, and 404 exactly when
\* it holds none; the asset it returns is never one of another id.
C20_GetByIdExact ==
    response.call = "getVideoById" =>
        LET requested == response.value.requested
            held == { n \in 1..Len(videosCache) : videosCache[n].id = requested }
        IN /\ held # {} =>
                 /\ response.value.status = 200
                 /\ \E n \in held : VideoOf(response.value.video, videosCache[n])
           /\ held = {} => response.value.status = 404


\* C21: getRecommendedVideos answers one entry for every entry of the
\* snapshot, in the order of the snapshot, and the match of every entry is
\* an integer from 70 to 99.
C21_RecommendedAll ==
    response.call = "getRecommendedVideos" =>
        /\ Len(response.value.videos) = Len(videosCache)
        /\ \A n \in 1..Len(videosCache) :
               /\ response.value.videos[n].id = parseInt(videosCache[n].id)
               /\ response.value.videos[n].title = videosCache[n].title
               /\ response.value.videos[n].match \in 70..99

\* a snapshot of several videos was answered with both ends of the range
C21_Witness ==
    /\ response.call = "getRecommendedVideos"
    /\ Len(videosCache) >= 3
    /\ \E n, m \in 1..Len(response.value.videos) :
           /\ response.value.videos[n].match = 70
           /\ response.value.videos[m].match = 99

\* the handler has decoded the key of the request, or thrown on it
Decoded == stream.pc \notin {"none", "start"}

TableType(extension) ==
    CASE extension = "png" -> "image/png"
      [] extension = "jpg" -> "image/jpeg"
      [] extension = "jpeg" -> "image/jpeg"
      [] extension = "mp4" -> "video/mp4"
      [] extension = "m3u8" -> "application/vnd.apple.mpegurl"
      [] extension = "ts" -> "video/mp2t"
      [] OTHER -> "application/octet-stream"

\* the lower-cased last extension of a key, "" for a key without a dot
LastExtension(key) == IF LastDot(key) = 0 THEN "" ELSE toLowerCase(SplitPop(key))

\* the handler relays the answer of an upstream
Relayed == res.sent /\ res.body = "bytes"

\* C23: the content type derived from the decoded key is the one the table
\* gives for its lower-cased last extension, application/octet-stream for a
\* key without extension, and it is the Content-Type of a relayed response
\* whose upstream supplied none.
C23_ContentTypeTable ==
    stream.fileExtension # Null =>
        /\ stream.contentType = TableType(LastExtension(stream.finalKey))
        /\ (Relayed /\ stream.got.contentType = Null) => res.contentType = stream.contentType

\* C24: a response sent by tier 1 is the relay of an OK answer of the edge;
\* no failure of tier 1 (signer error, fetch error, non-2xx answer) decides
\* the status or the body the client gets.
C24_Tier1FallsThrough ==
    (res.sent /\ stream.tier = 1) => (Ok(stream.got.status) /\ Ok(res.status))

\* the request asks for a range of a seekable video
SeekableRange == stream.fileExtension \in {"mp4", "webm"} /\ request.range # Null

\* C25: when a request for a range of a seekable video is answered from an
\* upstream, that upstream was sent the Range header of the request, and
\* the response carries its status (206 when it is OK) and its
\* Content-Range, with or without CloudFront.
C25_RangeForwarded ==
    (SeekableRange /\ res.sent /\ stream.got # NoUpstream) =>
        /\ stream.sentRange = request.range
        /\ res.status = stream.got.status
        /\ Ok(res.status) => res.status = 206
        /\ res.contentRange = stream.got.contentRange

\* the max-age of one year tier 3 sends
LongLived == "public, max-age=31536000"

\* C26: in tier 3 an answer of S3 that is not OK is surfaced with its status
\* and with its body as the detail of the error; an OK answer is relayed
\* with its status, its Content-Length, its Content-Type (the derived one
\* when it has none) and the long-lived Cache-Control.
C26_Tier3Answer ==
    (res.sent /\ stream.tier = 3 /\ stream.got # NoUpstream) =>
        IF Ok(stream.got.status)
        THEN /\ res.status = stream.got.status
             /\ res.contentLength = stream.got.contentLength
             /\ res.contentType = IF stream.got.contentType # Null
                                  THEN stream.got.contentType ELSE stream.contentType
             /\ res.cacheControl = LongLived
             /\ res.body = stream.got.body
        ELSE /\ res.status = stream.got.status
             /\ res.details = stream.got.body

\* tier 3 has surfaced a 403 of S3 with its body
C26_Witness ==
    /\ res.sent
    /\ stream.tier = 3
    /\ stream.got.status = 403
    /\ res.status = 403
    /\ res.details = "AccessDenied"

\* C27: when getSignedVideoUrl gives no URL at the tier of the request,
\* by answering nothing or by failing, the response is 404 and no fetch is
\* sent to the origin.
C27_NoUrlIs404 ==
    stream.signed \in {"null", "thrown"} =>
        /\ res.sent
        /\ res.status = 404
        /\ stream.tier \notin stream.fetched

\* C28: every stream request is answered in the end, with relayed bytes or
\* with an error, also when the upstream never answers the fetch.
C28_AlwaysAnswered == <>res.sent

\* C29: when the client has gone while the body is relayed, the fetch from
\* the upstream is closed in the end.
C29_DisconnectClosesUpstream == (client = "gone") ~> (upstream # "open")

\* C30: the snapshot a pass swaps in is the list of the assets that pass
\* built from its bulk listing and its structured records, and nothing
\* else: no entry of the snapshot before, appended ones included, is kept.
C30_FullReplacement ==
    [][\A p \in Procs :
          SwapBy(p) => videosCache' = PassSnapshot(s3Videos[p], RecordsOf(p))]_vars

\* requestTranscodeJob appended the asset "7" and stored its row, and a pass
\* that did not read that row has swapped the asset away
C30_Witness ==
    /\ \E p \in Procs : pc[p] = "read" /\ refreshed[p] = "swapped"
    /\ \E n \in 1..Len(dynamoTable) : dynamoTable[n].id = "7"
    /\ videosCache # <<>>
    /\ \A n \in 1..Len(videosCache) : videosCache[n].id # "7"

\* this step is a reader call taking slot p
CalledBy(p) == pc[p] = "idle" /\ pc'[p] \in {"read", "listVideos"}

\* C31: a reader call made with an empty cache, or a full TTL or more after
\* lastCacheRefresh, starts a refresh pass: it issues the bulk listing. That
\* covers the call after a failed pass and every call after a pass that
\* swapped in an empty snapshot.
C31_RefreshWhenStaleOrEmpty ==
    [][\A p \in Procs :
          (CalledBy(p) /\ (Len(videosCache) = 0 \/ clock - lastCacheRefresh >= CACHE_TTL))
              => (pc'[p] = "listVideos" /\ now'[p] = clock)]_vars

\* a pass has swapped in an empty snapshot and the second reader call, made
\* inside the TTL window of that pass, has issued the bulk listing again
C31_Witness ==
    /\ videosCache = <<>>
    /\ lastCacheRefresh > 0
    /\ readCalls = 2
    /\ ingestCalls = 0
    /\ pc[1] = "listVideos"
    /\ now[1] - lastCacheRefresh < CACHE_TTL
    /\ \A q \in Procs \ {1} : pc[q] = "idle"

\* C32: no step of a stream request changes the catalog snapshot or
\* lastCacheRefresh, and none starts a refresh pass or any other call of the
\* content service.
C32_StreamLeavesCatalog ==
    [][stream' # stream =>
          /\ videosCache' = videosCache
          /\ lastCacheRefresh' = lastCacheRefresh
          /\ pc' = pc
          /\ readCalls' = readCalls
          /\ dynamoTable' = dynamoTable]_vars

\* a stream request was served to its end from S3 beside a catalog that
\* holds a snapshot, and no call of the content service is running
C32_Witness ==
    /\ stream.pc = "done"
    /\ stream.signed = "url"
    /\ res.sent
    /\ res.body = "bytes"
    /\ Len(videosCache) = 3
    /\ lastCacheRefresh = StartTime
    /\ \A p \in Procs : pc[p] = "idle"

\* C33: an edge signed URL is requested, and the edge fetched, only for a
\* request with CloudFront configured whose key has the extension m3u8, ts
\* or mp4; and an origin tier is entered only when tier 1 has not sent the
\* response.
C33_Tier1Guard ==
    /\ (stream.edge # "none" \/ 1 \in stream.fetched) =>
           /\ request.cloudFront
           /\ LastExtension(stream.finalKey) \in {"m3u8", "ts", "mp4"}
    /\ stream.tier \in {2, 3} => stream.edge # "relayed"

\* C34: no source of the model gives a category, so the category of every
\* asset of the snapshot is its genre.
C34_CategoryIsGenre ==
    \A n \in 1..Len(videosCache) : videosCache[n].category = videosCache[n].genre

\* C35: lastCacheRefresh never decreases.
C35_LastRefreshMonotone == [][lastCacheRefresh' >= lastCacheRefresh]_vars

\* asset v was built by a pass from the record r, and is not what
\* requestTranscodeJob appends for the same upload
ImportedFrom(v, r) ==
    /\ v = DynamoProcessedVideo(r, v.videoUrl)
    /\ v # NewVideo(r.id, r.title, r.description, r.videoKey, v.videoUrl)

\* The snapshot in place holds an asset built from a record whose id the
\* records read by the pass of p do not have. Records are never deleted, so
\* the pass that built the snapshot read the record store after p did.
InstalledReadLater(p) ==
    \E m \in 1..Len(dynamoTable), n \in 1..Len(videosCache) :
        /\ ImportedFrom(videosCache[n], dynamoTable[m])
        /\ \A k \in 1..Len(RecordsOf(p)) : RecordsOf(p)[k].id # dynamoTable[m].id

\* C36: a pass never replaces a snapshot that was built from source reads
\* made after its own.
C36_NoStaleOverwrite ==
    [][\A p \in Procs : SwapBy(p) => ~InstalledReadLater(p)]_vars

\* no requestTranscodeJob call is between its entry and its return
IngestReturned ==
    ingestCalls > 0 /\ \A q \in Procs : pc[q] \notin {"ingestSign", "ingestPut"}

\* v was appended by a requestTranscodeJob call that returned videoId v.id:
\* outside development mode the call returns an id only after line 410
\* stored the row, in development mode as soon as line 406 appended
Acknowledged(v) ==
    /\ v.rating = "NR"
    /\ IngestReturned
    /\ \/ devMode
       \/ \E m \in 1..Len(dynamoTable) :
              dynamoTable[m].id = v.id /\ dynamoTable[m].rating = "NR"

\* C37: an asset for which requestTranscodeJob returned an id is still in
\* the catalog after every later successful refresh pass, in development
\* mode and outside it: the swap of lines 159-160 does not drop it
C37_AckedIngestSurvives ==
    [][\A p \in Procs : SwapBy(p) =>
          \A n \in 1..Len(videosCache) :
              Acknowledged(videosCache[n]) =>
                  videosCache[n].id \in Range(Ids(videosCache'))]_vars

\* the requestTranscodeJob call in slot p returns to its caller in this step
\* instead of throwing
IngestReturnsSuccess(p) ==
    /\ pc[p] \in {"ingestSign", "ingestPut"}
    /\ response'.slot = p
    /\ response'.value.ok

\* C38: whenever requestTranscodeJob returns a success response, the call
\* has appended an asset for its key to the snapshot (line 406) and the
\* response carries the id of that asset, in development mode too.
C38_SuccessMeansAppended ==
    [][\A p \in Procs :
         IngestReturnsSuccess(p) =>
             /\ AppendBy(p) \/ pc[p] = "ingestPut"
             /\ response'.value.videoId = job[p].id]_vars

\* the requestTranscodeJob call in slot p throws to its caller in this step
\* (line 439)
IngestThrows(p) ==
    /\ pc[p] \in {"ingestSign", "ingestPut"}
    /\ response'.slot = p
    /\ ~response'.value.ok

\* entry is the asset lines 389-403 build for the call in slot p
AppendedFor(p, entry) ==
    entry = NewVideo(job[p].id, job[p].title, job[p].description, job[p].s3Key,
                     entry.videoUrl)

\* C39: when requestTranscodeJob throws to its caller (signing failure or,
\* outside development mode, a failed mirror write), the snapshot holds no
\* asset of that call: a failed ingest leaves nothing behind in the catalog.
C39_FailedIngestLeavesNothing ==
    [][\A p \in Procs :
         IngestThrows(p) =>
             \A n \in 1..Len(videosCache') : ~AppendedFor(p, videosCache'[n])]_vars

(* ========================= properties of the player ==================== *)
\* the player emits 'error' in this step while its source is the fallback
\* source
FallbackSourceErrors ==
    PlayerError /\ playerRef.src = component.fallbackSrc

\* C40: the fallback source is loaded at most once per mounted player, and
\* when the fallback source errors as well the component enters its error
\* state and calls onError instead of loading the fallback source again.
C40_FallbackLoadedOnce ==
    [][/\ component'.fallbackLoads > component.fallbackLoads =>
              component.fallbackLoads = 0
       /\ FallbackSourceErrors =>
              /\ component'.isError
              /\ component'.onErrorCalls = component.onErrorCalls + 1
              /\ component'.fallbackLoads = component.fallbackLoads]_vars
====
